---- MODULE Spec2Model ----
(***************************************************************************)
(* A model of the markdown scanning and rewriting core of Obsidian_to_Anki *)
(* (src/src/file.ts): the edit engine apply_edits, the span scanner        *)
(* (scanNotes, scanInlineNotes, search), the identifier reconciler         *)
(* (postProcessFrontmatterID) and the rewrite writeIDs.                    *)
(*                                                                         *)
(* Buffers are TLA+ strings; offsets are 0-based as in JavaScript.         *)
(***************************************************************************)
EXTENDS Integers, Sequences, FiniteSets, TLC

VARIABLES
    pc,                  \* position of the modelled run
    file,                \* AbstractFile.file: the buffer being rewritten
    original_file,       \* AbstractFile.original_file: the buffer as constructed
    edits,               \* the edit list handed to apply_edits
    matches,             \* what matchAll yields on the file for each pattern of data
    file_cache,          \* AbstractFile.file_cache: the metadata snapshot
    data,                \* AbstractFile.data: the settings of the run
    ignore_spans,        \* AllFile.ignore_spans
    notes_to_add,        \* AbstractFile.notes_to_add
    id_indexes,          \* AbstractFile.id_indexes
    inline_notes_to_add, \* AllFile.inline_notes_to_add
    inline_id_indexes,   \* AllFile.inline_id_indexes
    regex_notes_to_add,  \* AllFile.regex_notes_to_add
    regex_id_indexes,    \* AllFile.regex_id_indexes
    notes_to_edit,       \* AbstractFile.notes_to_edit
    notes_to_delete,     \* AbstractFile.notes_to_delete
    all_notes_to_add,    \* AbstractFile.all_notes_to_add
    note_ids,            \* AbstractFile.note_ids
    useFrontmatterID,    \* AllFile.useFrontmatterID
    frontmatterID,       \* AllFile.frontmatterID
    existingIDSpans,     \* AllFile.existingIDSpans
    notesToWriteInline,  \* AllFile.notesToWriteInline
    considered,          \* history: every match a scan pass looked at, with its outcome
    composed,            \* history: the number of segments the document was composed of
    isSyncing,           \* MyPlugin.isSyncing
    statusBar,           \* the state last passed to MyPlugin.updateStatusBar
    syncAt,              \* for each invocation of syncFiles, the await it is at
    modalOpen,           \* for each invocation of syncFiles, its progressModal is open
    timers,              \* the pending setTimeout callbacks of syncFiles
    deleteNotes,         \* history: the deleteNotes request of checkAndBulkDelete
    position,            \* the argument of getContextAtIndex
    context              \* the string getContextAtIndex returned

bufVars  == <<file, original_file, edits>>
docVars  == <<matches, file_cache, data>>
scanVars == <<ignore_spans, notes_to_add, id_indexes, inline_notes_to_add,
              inline_id_indexes, regex_notes_to_add, regex_id_indexes,
              notes_to_edit, notes_to_delete, existingIDSpans, considered>>
recVars  == <<all_notes_to_add, note_ids, useFrontmatterID, frontmatterID,
              notesToWriteInline>>

syncVars == <<isSyncing, statusBar, syncAt, modalOpen, timers>>

ctxVars == <<position, context>>

vars == <<pc, bufVars, docVars, composed, scanVars, recVars, syncVars, deleteNotes,
          ctxVars>>

----------------------------------------------------------------------------
(* Bounds of the model *)

\* number of edits in one edit set of the edit-engine specification
MaxEdits == 3

\* number of segments (notes, plain lines) a document is composed of
MaxSegs == 2

\* number of invocations of syncFiles that may be under way at once
MaxSyncs == 2

\* number of pending timers of syncFiles
MaxTimers == 2

\* number of headings of a document, and the largest offset of a heading
MaxHeadings == 3
MaxOffset == 3

\* the deepest level of a heading
MaxLevel == 3

----------------------------------------------------------------------------
(* Values of the source *)

\* null: no identifier. Identifiers of the remote store are positive.
Null == 0

\* the sentinel identifiers a parse returns for a match that is no valid note
\* (imported from ./note)
CLOZE_ERROR == 42
NOTE_TYPE_ERROR == 69

\* a JavaScript condition on a number-or-null value: null, 0 and NaN are falsy
Truthy(x) == x # Null

\* the fields of an AllFile before setupScan has run: the class field
\* initialisers, and empty lists for the fields declared without one
FreshFields ==
    /\ ignore_spans = <<>>
    /\ notes_to_add = <<>>
    /\ id_indexes = <<>>
    /\ inline_notes_to_add = <<>>
    /\ inline_id_indexes = <<>>
    /\ regex_notes_to_add = <<>>
    /\ regex_id_indexes = <<>>
    /\ notes_to_edit = <<>>
    /\ notes_to_delete = <<>>
    /\ all_notes_to_add = <<>>
    /\ note_ids = <<>>
    /\ useFrontmatterID = FALSE
    /\ frontmatterID = Null
    /\ existingIDSpans = <<>>
    /\ notesToWriteInline = <<>>
    /\ considered = <<>>

\* getContextAtIndex has not been called
NoContext == position = 0 /\ context = ""

\* the plugin after onload, part_000 20 and 519-521: no sync under way, the
\* status bar idle, no deletion requested
SyncIdle ==
    /\ deleteNotes = "none"
    /\ isSyncing = FALSE
    /\ statusBar = "idle"
    /\ syncAt = [i \in 1..MaxSyncs |-> "idle"]
    /\ modalOpen = [i \in 1..MaxSyncs |-> FALSE]
    /\ timers = 0

\* a document in which no pattern matches, without metadata
NoMatches == [note |-> <<>>, inline |-> <<>>, regex |-> <<>>, other |-> <<>>, empty |-> <<>>]
NoTags == [kind |-> "none", array |-> <<>>, string |-> ""]
NoCache == [frontmatter |-> FALSE, nid |-> "", fmtags |-> NoTags, tags |-> <<>>]

----------------------------------------------------------------------------
(* JavaScript string and array primitives used by the source *)

Min(a, b) == IF a <= b THEN a ELSE b
Max(a, b) == IF a >= b THEN a ELSE b

\* an index of slice, clamped to a string of length n; a negative one counts
\* from its end
clamp(a, n) == IF a < 0 THEN Max(n + a, 0) ELSE Min(a, n)

\* the characters of s from index lo up to index hi
substring(s, lo, hi) == IF lo >= hi THEN "" ELSE SubSeq(s, lo + 1, hi)

\* String.prototype.slice(a, b)
slice(s, a, b) == substring(s, clamp(a, Len(s)), clamp(b, Len(s)))

\* String.prototype.slice(a): to the end of the string
sliceFrom(s, a) == substring(s, clamp(a, Len(s)), Len(s))

\* the character at 0-based index i, "" outside the string
charAt(s, i) == IF i < 0 \/ i >= Len(s) THEN "" ELSE SubSeq(s, i + 1, i + 1)

startsWithAt(s, sub, i) ==
    /\ i >= 0
    /\ i + Len(sub) <= Len(s)
    /\ \A k \in 1..Len(sub) : SubSeq(s, i + k, i + k) = SubSeq(sub, k, k)

\* the least element of a non-empty set of integers
Least(S) == CHOOSE i \in S : \A j \in S : i <= j

\* the greatest element of a non-empty set of integers
Greatest(S) == CHOOSE i \in S : \A j \in S : i >= j

\* String.prototype.indexOf(sub, from): the first index of sub, -1 when absent
indexOfFrom(s, sub, from) ==
    IF \E i \in from..Len(s) : startsWithAt(s, sub, i)
    THEN Least({ i \in from..Len(s) : startsWithAt(s, sub, i) })
    ELSE -1

\* String.prototype.indexOf(sub)
indexOf(s, sub) == indexOfFrom(s, sub, 0)

\* String.prototype.lastIndexOf(sub)
lastIndexOf(s, sub) ==
    IF \E i \in 0..Len(s) : startsWithAt(s, sub, i)
    THEN Greatest({ i \in 0..Len(s) : startsWithAt(s, sub, i) })
    ELSE -1

\* the character classes of the regular expressions: \s, \d, and what . excludes
IsSpace(c) == c \in {" ", "\n", "\t", "\r"}
IsDigit(c) == c \in {"0", "1", "2", "3", "4", "5", "6", "7", "8", "9"}
IsLineEnd(c) == c \in {"\n", "\r"}

AllSpace(s) == \A i \in 0..(Len(s) - 1) : IsSpace(charAt(s, i))
NoLineEnd(s) == \A i \in 0..(Len(s) - 1) : ~IsLineEnd(charAt(s, i))

\* the text between the first and the last of the indices solid
between(s, solid) ==
    IF solid = {} THEN "" ELSE slice(s, Least(solid), Greatest(solid) + 1)

\* String.prototype.trim()
trim(s) == between(s, { i \in 0..(Len(s) - 1) : ~IsSpace(charAt(s, i)) })

\* ^ under the m flag: the start of the string or just after a line end
IsLineStart(s, i) == i = 0 \/ IsLineEnd(charAt(s, i - 1))

\* the index just past the run of digits that starts at i
RECURSIVE digitsEnd(_, _)
digitsEnd(s, i) == IF IsDigit(charAt(s, i)) THEN digitsEnd(s, i + 1) ELSE i

\* the index of the end of the line that holds index i
RECURSIVE lineEnd(_, _)
lineEnd(s, i) ==
    IF i >= Len(s) \/ IsLineEnd(charAt(s, i)) THEN i ELSE lineEnd(s, i + 1)

\* the indices 1..Len(q) of a sequence in every order
Perms(n) == { p \in [1..n -> 1..n] : \A i, j \in 1..n : i # j => p[i] # p[j] }

----------------------------------------------------------------------------
(* The edit engine: apply_edits, file.ts 29-36 *)

\* Array.prototype.sort((a, b) => b.start - a.start): a stable sort, edits in
\* descending start order, edits of equal start in their listed order
RECURSIVE sort_desc_start(_)
sort_desc_start(es) ==
    IF es = <<>> THEN <<>>
    ELSE LET rest == sort_desc_start(SubSeq(es, 1, Len(es) - 1))
             e    == es[Len(es)]
             \* e was listed last: it goes after every edit whose start is >= its own
             k    == Cardinality({ i \in 1..Len(rest) : rest[i].start >= e.start })
         IN  SubSeq(rest, 1, k) \o <<e>> \o SubSeq(rest, k + 1, Len(rest))

\* one iteration of the loop: text.slice(0, start) + edit.text + text.slice(end)
splice(text, edit) ==
    slice(text, 0, edit.start) \o edit.text \o sliceFrom(text, edit.end)

RECURSIVE splice_all(_, _)
splice_all(text, es) ==
    IF es = <<>> THEN text
    ELSE splice_all(splice(text, Head(es)), Tail(es))

\* a plausible slip: the edits applied in the order listed, unsorted
apply_edits_unsorted(text, es) == splice_all(text, es)

apply_edits(text, es) == splice_all(text, sort_desc_start(es))

----------------------------------------------------------------------------
(* The edit engine on its own: every edit list over one buffer *)

\* the buffer the edit sets are expressed against
Buffer == "abc"

\* the replacement text of the i-th listed edit, when it is not a deletion
Rep == <<"W", "X", "Y", "Z", "V", "U">>

Edit(s, e, t) == [start |-> s, end |-> e, text |-> t]

Ranges(n) == { r \in (0..n) \X (0..n) : r[1] <= r[2] }

\* the edits a caller can push as the i-th of its list
EditsAt(i, n) ==
    { Edit(r[1], r[2], t) : r \in Ranges(n), t \in {"", Rep[i]} }

\* the settings of a run whose only step is the edit engine
NoData == [saveIDToFrontmatter |-> FALSE, EXISTING_IDS |-> {}, comment |-> FALSE,
           custom_regexps |-> <<>>, regex_required_tags |-> FALSE,
           regexp_tags |-> <<>>]

InitEdits ==
    /\ pc = "building"
    /\ file = Buffer
    /\ original_file = Buffer
    /\ edits = <<>>
    /\ matches = NoMatches
    /\ file_cache = NoCache
    /\ data = NoData
    /\ composed = 0
    /\ FreshFields
    /\ SyncIdle
    /\ NoContext

\* writeIDs, file.ts 700-793: edits.push({ start, end, text })
PushEdit ==
    /\ pc = "building"
    /\ Len(edits) < MaxEdits
    /\ \E e \in EditsAt(Len(edits) + 1, Len(original_file)) : edits' = Append(edits, e)
    /\ UNCHANGED <<syncVars, deleteNotes, ctxVars, pc, file, original_file, docVars, composed, scanVars, recVars>>

\* writeIDs, file.ts 795: this.file = apply_edits(this.file, edits)
WriteEdits ==
    /\ pc = "building"
    /\ file' = apply_edits(file, edits)
    /\ pc' = "edits_applied"
    /\ UNCHANGED <<syncVars, deleteNotes, ctxVars, original_file, edits, docVars, composed, scanVars, recVars>>

NextEdits == PushEdit \/ WriteEdits

SpecEdits == InitEdits /\ [][NextEdits]_vars

----------------------------------------------------------------------------
(* What the edit engine is to compute, stated without the algorithm *)

Overlap(a, b) == a.start < b.end /\ b.start < a.end

NonOverlapping(es) ==
    \A i, j \in 1..Len(es) : i < j => ~Overlap(es[i], es[j])

DistinctStarts(es) ==
    \A i, j \in 1..Len(es) : i < j => es[i].start # es[j].start

Permute(es, p) == [i \in 1..Len(es) |-> es[p[i]]]

\* the permutation lists edits of equal start in the order es lists them
KeepsTies(es, p) ==
    \A i, j \in 1..Len(es) :
        (i < j /\ es[p[i]].start = es[p[j]].start) => p[i] < p[j]

\* the texts of the insertions at offset q, in the order ord lists the edits
RECURSIVE InsertedAt(_, _, _, _)
InsertedAt(es, ord, q, k) ==
    IF k > Len(es) THEN ""
    ELSE LET e == es[ord[k]]
         IN  (IF e.start = q /\ e.end = q THEN e.text ELSE "")
             \o InsertedAt(es, ord, q, k + 1)

\* the buffer from offset q on: the insertions at q, then the replacement of
\* the range starting at q or the character at q, then the rest
RECURSIVE Edited(_, _, _, _)
Edited(text, es, ord, q) ==
    LET ins == InsertedAt(es, ord, q, 1)
        rs  == { i \in 1..Len(es) : es[i].start = q /\ es[i].end > q }
    IN  IF q >= Len(text) THEN ins
        ELSE IF rs # {}
             THEN LET i == CHOOSE i \in rs : TRUE
                  IN  ins \o es[i].text \o Edited(text, es, ord, es[i].end)
             ELSE ins \o slice(text, q, q + 1) \o Edited(text, es, ord, q + 1)

\* replaying a list of edits in the order listed, each at its offset in the
\* original buffer moved by the edits already replayed before it
RECURSIVE Shift(_, _)
Shift(before, e) ==
    IF before = <<>> THEN 0
    ELSE LET d == Head(before)
         IN  (IF d.start < e.start THEN Len(d.text) - (d.end - d.start) ELSE 0)
             + Shift(Tail(before), e)

RECURSIVE Replay(_, _, _)
Replay(text, before, todo) ==
    IF todo = <<>> THEN text
    ELSE LET e == Head(todo)
             k == Shift(before, e)
         IN  Replay(slice(text, 0, e.start + k) \o e.text \o sliceFrom(text, e.end + k),
                    Append(before, e), Tail(todo))

\* C1: for pairwise non-overlapping edits, apply_edits returns the buffer in
\* which each edit's range is replaced by its replacement exactly once and
\* every character outside the ranges is kept, in its original order.
C1_EveryEditAppliedOnce ==
    (pc = "edits_applied" /\ NonOverlapping(edits)) =>
        \E ord \in Perms(Len(edits)) : file = Edited(original_file, edits, ord, 0)

\* C1: a non-overlapping edit set in which an insertion shares its offset
\* with a replacement has been applied
C1_InsertionAtReplacementApplied ==
    /\ pc = "edits_applied"
    /\ NonOverlapping(edits)
    /\ \E i, j \in 1..Len(edits) :
          /\ edits[i].start = edits[i].end
          /\ edits[j].start = edits[i].start
          /\ edits[j].end > edits[j].start

\* every edit that shares its start offset with another edit is an insertion
OnlyInsertionsTie(es) ==
    \A i, j \in 1..Len(es) :
        (i # j /\ es[i].start = es[j].start) => es[i].start = es[i].end

\* C2 as stated: for a non-overlapping edit set, insertions that share their
\* start offset included, the returned buffer is the same for every order in
\* which the edits are listed. (Stated for the sets in which no replacement
\* shares its start offset, so that the defect of C1 plays no part.)
C2_AnyListingOrder ==
    (pc = "edits_applied" /\ NonOverlapping(edits) /\ OnlyInsertionsTie(edits)) =>
        \A p \in Perms(Len(edits)) :
            apply_edits(original_file, Permute(edits, p)) = file

\* C2 as amended: for a non-overlapping edit set the returned buffer is the
\* same for every listing order that keeps edits of equal start offset in
\* their relative order, and when the start offsets are pairwise distinct it
\* equals the replay of the edits in any order at their original offsets.
C2_ListingOrderUpToTies ==
    (pc = "edits_applied" /\ NonOverlapping(edits)) =>
        /\ \A p \in Perms(Len(edits)) :
              KeepsTies(edits, p) =>
                  apply_edits(original_file, Permute(edits, p)) = file
        /\ DistinctStarts(edits) =>
              \A p \in Perms(Len(edits)) :
                  Replay(original_file, <<>>, Permute(edits, p)) = file

\* C2: three non-overlapping edits of distinct offsets, an insertion among
\* them, listed in ascending order, have been applied
C2_AscendingListApplied ==
    /\ pc = "edits_applied"
    /\ Len(edits) = 3
    /\ NonOverlapping(edits)
    /\ edits[1].start < edits[2].start
    /\ edits[2].start < edits[3].start
    /\ \E i \in 1..3 : edits[i].start = edits[i].end /\ edits[i].text # ""
    /\ file # original_file

\* C3: when apply_edits is given two overlapping edits the write is aborted:
\* no buffer produced from them is stored in the file buffer.
C3_OverlapAbortsWrite ==
    (pc = "edits_applied" /\ ~NonOverlapping(edits)) => file = original_file

----------------------------------------------------------------------------
(* The regular expressions of file.ts, computed on strings *)

\* a match of a regular expression: its index and its length, or no match
NoMatch == [index |-> -1, length |-> 0]
Found(i, n) == [index |-> i, length |-> n]

\* the leftmost of the indices a regular expression matches at, -1 for none
leftmost(hits) == IF hits = {} THEN -1 ELSE Least(hits)

\* whether t2, from its start to its end, is  ID: (\d+).*$  (no flags: .
\* stops at a line end and $ is the end of the input only)
IsIDLine(t2) ==
    /\ startsWithAt(t2, "ID: ", 0)
    /\ IsDigit(charAt(t2, 4))
    /\ NoLineEnd(sliceFrom(t2, 4))

\* t without the prefix, when it starts with it
dropPrefix(t, prefix) ==
    IF startsWithAt(t, prefix, 0) THEN sliceFrom(t, Len(prefix)) ELSE t

\* whether t, from its start to its end, is  \n?(?:<!--)?(?:ID: (\d+).*)$
\* (ID_REGEXP_STR anchored to the end of the input)
IsIDTail(t) == IsIDLine(dropPrefix(dropPrefix(t, "\n"), "<!--"))

\* the match that runs from index i to the end of s
tailFrom(s, i) == IF i < 0 THEN NoMatch ELSE Found(i, Len(s) - i)

\* s.match(new RegExp(ID_REGEXP_STR + "$")): the leftmost match
matchIDTail(s) ==
    tailFrom(s, leftmost({ i \in 0..Len(s) : IsIDTail(sliceFrom(s, i)) }))

\* ID: (\d+) at index i of s
plainIDAt(s, i) == startsWithAt(s, "ID: ", i) /\ IsDigit(charAt(s, i + 4))

\* the match of (?:<!--)?ID: (\d+) that starts at index i of s
inlineIDFrom(s, i) ==
    IF i < 0 THEN NoMatch
    ELSE Found(i, digitsEnd(s, IF plainIDAt(s, i) THEN i + 4 ELSE i + 8) - i)

\* s.match(InlineNote.ID_REGEXP), the expression (?:<!--)?ID: (\d+)
matchInlineID(s) ==
    inlineIDFrom(s, leftmost({ i \in 0..Len(s) :
        \/ plainIDAt(s, i)
        \/ startsWithAt(s, "<!--", i) /\ plainIDAt(s, i + 4) }))

\* the match of /^---\n([\s\S]*?)\n---/ whose closing delimiter is at close
frontmatterTo(s, close) ==
    IF startsWithAt(s, "---\n", 0) /\ close >= 0
    THEN Found(0, close + 4) ELSE NoMatch

\* s.match(/^---\n([\s\S]*?)\n---/): the leading front-matter block; the
\* captured text is slice(s, 4, index of the closing delimiter)
matchFrontmatter(s) == frontmatterTo(s, indexOfFrom(s, "\n---", 4))

frontmatterText(s) == slice(s, 4, matchFrontmatter(s).length - 4)

\* the first line of s that starts with nid: (^nid: under the m flag)
nidLine(s) ==
    leftmost({ i \in 0..Len(s) : IsLineStart(s, i) /\ startsWithAt(s, "nid:", i) })

\* s with the line that starts at i replaced by repl
replaceLineAt(s, i, repl) ==
    IF i < 0 THEN s
    ELSE slice(s, 0, i) \o repl \o sliceFrom(s, lineEnd(s, i))

\* frontmatter.replace(/^nid:.*$/m, repl) and .replace(/^nid:[^\n]*/m, repl)
replaceNidLine(s, repl) == replaceLineAt(s, nidLine(s), repl)

\* no line end in s from index a up to index b
sameLine(s, a, b) == \A j \in a..(b - 1) : ~IsLineEnd(charAt(s, j))

\* /nid:[^\n]*$/.test(s): nid: occurs on the last line of s
nidOnLastLine(s) ==
    \E i \in 0..Len(s) : startsWithAt(s, "nid:", i) /\ sameLine(s, i + 4, Len(s))

\* nid:[^\n]*\s*$ at index i of s
bareNidAt(s, i) ==
    /\ startsWithAt(s, "nid:", i)
    /\ \E m \in (i + 4)..Len(s) : sameLine(s, i + 4, m) /\ AllSpace(sliceFrom(s, m))

\* \n\s*nid:[^\n]*\s*$ at index i of s
ledNidAt(s, i) ==
    /\ charAt(s, i) = "\n"
    /\ \E j \in (i + 1)..Len(s) : AllSpace(slice(s, i + 1, j)) /\ bareNidAt(s, j)

\* s up to index i, all of s when i is -1
upTo(s, i) == IF i < 0 THEN s ELSE slice(s, 0, i)

\* s.replace(/(\n\s*)?nid:[^\n]*\s*$/, ""): the leftmost index from which the
\* rest of s is an optional newline-and-whitespace, nid:, the rest of its
\* line and trailing whitespace; the match runs to the end of s
removeLastNid(s) ==
    upTo(s, leftmost({ i \in 0..Len(s) : ledNidAt(s, i) \/ bareNidAt(s, i) }))

\* the length of the line end at k: \r\n, \r or \n, 0 when there is none
lineEndLen(s, k) ==
    IF ~IsLineEnd(charAt(s, k)) THEN 0
    ELSE IF startsWithAt(s, "\r\n", k) THEN 2 ELSE 1

\* the index after the optional <!-- at m
afterComment(s, m) == IF startsWithAt(s, "<!--", m) THEN m + 4 ELSE m

\* whether (?:\r\n|\r|\n)(?:<!--)?ID: \d+ is at index j
markerLineAt(s, j) ==
    /\ lineEndLen(s, j) > 0
    /\ plainIDAt(s, afterComment(s, j + lineEndLen(s, j)))

\* whether double_regexp matches at index i
doubleAt(s, i) ==
    lineEndLen(s, i) > 0 /\ markerLineAt(s, i + lineEndLen(s, i))

\* the index of the end of the marker line that starts at j
markerLineEnd(s, j) ==
    digitsEnd(s, afterComment(s, j + lineEndLen(s, j)) + 4)

\* this.file.replace(double_regexp, "$1"), file.ts 14 and 696: every line end
\* that is followed by a line end and an identifier marker is dropped
RECURSIVE fixFrom(_, _)

\* the text from i with the match of double_regexp at k replaced
fixAt(s, i, k) ==
    IF k < 0 THEN sliceFrom(s, i)
    ELSE slice(s, i, k)
            \o slice(s, k + lineEndLen(s, k), markerLineEnd(s, k + lineEndLen(s, k)))
            \o fixFrom(s, markerLineEnd(s, k + lineEndLen(s, k)))

fixFrom(s, i) == fixAt(s, i, leftmost({ k \in i..(Len(s) - 1) : doubleAt(s, k) }))

fix_newline_ids(s) == fixFrom(s, 0)

\* the value of the digit c
digitOf(c) == CHOOSE d \in 0..9 : ToString(d) = c

\* parseInt on the value of a front-matter property: its leading digits, or
\* NaN (falsy, as null is) when it has none
RECURSIVE digitsValue(_, _, _)
digitsValue(s, i, acc) ==
    IF IsDigit(charAt(s, i))
    THEN digitsValue(s, i + 1, 10 * acc + digitOf(charAt(s, i)))
    ELSE acc

leadingInt(t) == IF IsDigit(charAt(t, 0)) THEN digitsValue(t, 0, 0) ELSE Null

parseInt(s) == leadingInt(trim(s))

\* <!-- and --> around the marker when comment is set
commented(plain, comment) ==
    IF comment THEN "<!--" \o plain \o "-->" ELSE plain

\* id_to_str, file.ts 16-27
id_to_str(identifier, inline, comment) ==
    commented("ID: " \o ToString(identifier), comment)
        \o (IF inline THEN " " ELSE "\n")

\* contained_in, file.ts 50-55: span within one of spans, 1 character of leeway
contained_in(span, spans) ==
    \E k \in 1..Len(spans) :
        span[1] >= spans[k][1] - 1 /\ span[2] <= spans[k][2] + 1

----------------------------------------------------------------------------
(* The documents and settings of the scan *)

\* the markers of the note syntax
BEGIN_NOTE == "START\n"
END_NOTE == "END"
BEGIN_INLINE == "STARTI"
END_INLINE == "ENDI"

\* a match of NOTE_REGEXP or INLINE_REGEXP: match.index, match[0].length, where
\* capture group 1 lies in match[0], and the identifier its parse returns
NoteMatch(i, n, g, gn, id) ==
    [index |-> i, length |-> n, g1 |-> g, g1len |-> gn, ident |-> id]

\* a match of one variant of a custom regexp
RegexMatch(t, sid, stags, i, n, id) ==
    [type |-> t, search_id |-> sid, search_tags |-> stags,
     index |-> i, length |-> n, ident |-> id]

Plain(t) == [text |-> t, note |-> <<>>, inline |-> <<>>, regex |-> <<>>,
             other |-> <<>>, empty |-> <<>>]

\* a block note: START, the note's text (its type, its fields, its
\* identifier line if it has one), END
BlockSeg(body, id) ==
    [Plain(BEGIN_NOTE \o body \o END_NOTE \o "\n") EXCEPT
        !.note = <<NoteMatch(0, Len(BEGIN_NOTE \o body \o END_NOTE),
                             Len(BEGIN_NOTE), Len(body), id)>>]

\* an inline note on a line of its own
InlineSeg(body, id) ==
    [Plain(BEGIN_INLINE \o body \o END_INLINE \o "\n") EXCEPT
        !.inline = <<NoteMatch(0, Len(BEGIN_INLINE \o body \o END_INLINE),
                               Len(BEGIN_INLINE), Len(body), id)>>]

\* a block note whose only field line is an inline note
NestedSeg ==
    LET inner == BEGIN_INLINE \o " [Basic] Q " \o END_INLINE
        body  == "Basic\n" \o inner \o "\n"
    IN  [BlockSeg(body, Null) EXCEPT
            !.inline = <<NoteMatch(Len(BEGIN_NOTE) + 6, Len(inner),
                                   Len(BEGIN_INLINE), 11, Null)>>]

\* the segments a document is composed of. The custom note types are RC, a
\* cloze type whose pattern matches a line that starts with Z (the line holds
\* no cloze, so its parse is a ClozeError), R1, a one-line pattern that
\* matches front::back and whose back runs to the end of the line, and R2, a
\* pattern that matches a line P and the line after it.  The tag suffix is
\* Tags: and the rest of the line.
Segments ==
    { Plain("x\n"),
      BlockSeg("Basic\nQ\n", Null),
      BlockSeg("Basic\nQ\nID: 5\n", 5),
      BlockSeg("Basic\nQ\n\nID: 5\n", 5),
      InlineSeg(" [Basic] Q ", Null),
      InlineSeg(" [Basic] Q ID: 5 ", 5),
      [Plain("Q::A\n") EXCEPT
          !.regex = <<RegexMatch("R1", FALSE, FALSE, 0, 4, Null)>>],
      [Plain("Q::A\nID: 5\n") EXCEPT
          !.regex = <<RegexMatch("R1", TRUE, FALSE, 0, 10, 5),
                      RegexMatch("R1", FALSE, FALSE, 0, 4, Null)>>],
      NestedSeg,
      [Plain("P\nQ::A\n") EXCEPT
          !.regex = <<RegexMatch("R1", FALSE, FALSE, 2, 4, Null),
                      RegexMatch("R2", FALSE, FALSE, 0, 6, Null)>>],
      [Plain("$Q::A$\n") EXCEPT
          !.other = <<<<0, 6>>>>,
          !.regex = <<RegexMatch("R1", FALSE, FALSE, 1, 4, Null)>>],
      [Plain("Z::A\n") EXCEPT
          !.regex = <<RegexMatch("RC", FALSE, FALSE, 0, 4, CLOZE_ERROR),
                      RegexMatch("R1", FALSE, FALSE, 0, 4, Null)>>],
      [Plain("Z::A\nID: 5\n") EXCEPT
          !.regex = <<RegexMatch("RC", TRUE, FALSE, 0, 10, CLOZE_ERROR),
                      RegexMatch("RC", FALSE, FALSE, 0, 4, CLOZE_ERROR),
                      RegexMatch("R1", TRUE, FALSE, 0, 10, 5),
                      RegexMatch("R1", FALSE, FALSE, 0, 4, Null)>>],
      [Plain("Q::A Tags: t\nID: 5\n") EXCEPT
          !.regex = <<RegexMatch("R1", TRUE, TRUE, 0, 18, 5),
                      RegexMatch("R1", TRUE, FALSE, 0, 18, 5),
                      RegexMatch("R1", FALSE, TRUE, 0, 12, Null),
                      RegexMatch("R1", FALSE, FALSE, 0, 12, Null)>>] }

\* the front matter a document starts with, and what the metadata snapshot
\* holds of it
Frontmatters ==
    { [text |-> "",                         cache |-> NoCache],
      [text |-> "---\nk: v\n---\n",         cache |-> [NoCache EXCEPT !.frontmatter = TRUE]],
      [text |-> "---\n\nk: v\n---\n",       cache |-> [NoCache EXCEPT !.frontmatter = TRUE]],
      [text |-> "---\nnid: 7\n---\n",       cache |-> [NoCache EXCEPT !.frontmatter = TRUE, !.nid = "7"]],
      [text |-> "---\nnid: 5\n---\n",       cache |-> [NoCache EXCEPT !.frontmatter = TRUE, !.nid = "5"]],
      [text |-> "---\nk: v\nnid: 7\n---\n", cache |-> [NoCache EXCEPT !.frontmatter = TRUE, !.nid = "7"]],
      [text |-> "---\nnid: 7\nk: v\n---\n", cache |-> [NoCache EXCEPT !.frontmatter = TRUE, !.nid = "7"]] }

\* the identifiers the remote store may hold
RemoteIDs == {5, 7}

\* the settings of a run: data.saveIDToFrontmatter, data.EXISTING_IDS,
\* data.comment, and the custom note types in declared order
Settings ==
    { [NoData EXCEPT !.saveIDToFrontmatter = s, !.EXISTING_IDS = x, !.comment = c,
                     !.custom_regexps = <<"RC", "R1", "R2">>,
                     !.regexp_tags = [t \in {"RC", "R1", "R2"} |-> ""]] :
        s \in BOOLEAN, x \in SUBSET RemoteIDs, c \in BOOLEAN }

ShiftMatches(ms, d) == [k \in 1..Len(ms) |-> [ms[k] EXCEPT !.index = @ + d]]
ShiftSpans(sp, d) == [k \in 1..Len(sp) |-> <<sp[k][1] + d, sp[k][2] + d>>]

Init ==
    /\ pc = "compose"
    /\ \E fm \in Frontmatters :
          /\ file = fm.text
          /\ original_file = fm.text
          /\ file_cache = fm.cache
    /\ data \in Settings
    /\ matches = NoMatches
    /\ edits = <<>>
    /\ composed = 0
    /\ FreshFields
    /\ SyncIdle
    /\ NoContext

\* the document as the user wrote it: one more segment, of segs, at its end
ComposeFrom(segs) ==
    /\ pc = "compose"
    /\ composed < MaxSegs
    /\ \E seg \in segs :
          LET d == Len(file)
          IN  /\ file' = file \o seg.text
              /\ original_file' = file \o seg.text
              /\ matches' = [note   |-> matches.note \o ShiftMatches(seg.note, d),
                             inline |-> matches.inline \o ShiftMatches(seg.inline, d),
                             regex  |-> matches.regex \o ShiftMatches(seg.regex, d),
                             other  |-> matches.other \o ShiftSpans(seg.other, d),
                             empty  |-> matches.empty \o ShiftMatches(seg.empty, d)]
    /\ composed' = composed + 1
    /\ UNCHANGED <<syncVars, deleteNotes, ctxVars, pc, edits, file_cache, data, scanVars, recVars>>

Compose == ComposeFrom(Segments)

----------------------------------------------------------------------------
(* The span scanner: setupScan, scanNotes, scanInlineNotes, search *)

SpanOf(m) == <<m.index, m.index + m.length>>

SpansOf(ms) == [k \in 1..Len(ms) |-> SpanOf(ms[k])]

\* the note a parse builds from a match: it is told from every other note
\* of the document by its dialect and its span
NoteOf(dialect, m) == [dialect |-> dialect, index |-> m.index, length |-> m.length]

\* one entry of the history of the scan
Seen(dialect, m, before, outcome) ==
    [dialect |-> dialect, span |-> SpanOf(m), ident |-> m.ident,
     before |-> before, outcome |-> outcome]

\* add_spans_to_ignore, file.ts 308-325: the spans of the frozen-field, deck
\* and tag lines and of math and code (matches.other), and of every match of
\* NOTE_REGEXP and INLINE_REGEXP
add_spans_to_ignore ==
    SpansOf(matches.note) \o SpansOf(matches.inline) \o matches.other

\* setupScan, file.ts 346-352: the front-matter identifier is read only when
\* data.saveIDToFrontmatter is set
readFrontmatterID ==
    IF /\ data.saveIDToFrontmatter
       /\ file_cache.frontmatter
       /\ file_cache.nid # ""
    THEN parseInt(file_cache.nid)
    ELSE frontmatterID

\* setupScan, file.ts 327-362
SetupScan ==
    /\ pc = "compose"
    /\ pc' = "scanNotes"
    /\ ignore_spans' = add_spans_to_ignore
    /\ existingIDSpans' = <<>>
    /\ notesToWriteInline' = <<>>
    /\ frontmatterID' = readFrontmatterID
    /\ notes_to_add' = <<>>
    /\ inline_notes_to_add' = <<>>
    /\ regex_notes_to_add' = <<>>
    /\ id_indexes' = <<>>
    /\ inline_id_indexes' = <<>>
    /\ regex_id_indexes' = <<>>
    /\ notes_to_edit' = <<>>
    /\ notes_to_delete' = <<>>
    /\ UNCHANGED <<syncVars, deleteNotes, ctxVars, bufVars, docVars, composed, considered, all_notes_to_add,
                   note_ids, useFrontmatterID>>

\* the texts of a match: match[0] and its capture group 1
m0(m) == slice(file, m.index, m.index + m.length)
m1(m) == slice(m0(m), m.g1, m.g1 + m.g1len)

\* the index of the end of the capture group, as the source computes it
endOfGroup(index, match0, group1) == index + indexOf(match0, group1) + Len(group1)

\* file.ts 366 and 427: the index of the end of the first capture group
positionOf(m) == endOfGroup(m.index, m0(m), m1(m))

\* the outcome of a match that carries an identifier, file.ts 408-420
outcomeOf(id) ==
    IF id \in data.EXISTING_IDS THEN "edit"
    ELSE IF id = CLOZE_ERROR THEN "cloze"
    ELSE IF id = NOTE_TYPE_ERROR THEN "type_error"
    ELSE "unknown"

\* file.ts 400-405, 533-538: the span pushed when matchIndex is not -1
spanAt(base, matchIndex, n) ==
    IF matchIndex # -1
    THEN << <<base + matchIndex, base + matchIndex + n>> >>
    ELSE <<>>

\* file.ts 399, 532: matchIndex = text.lastIndexOf(idMatch[0])
tailSpan(base, text, id0) == spanAt(base, lastIndexOf(text, id0), Len(id0))

\* file.ts 398, 531: if (idMatch)
idTailSpan(base, text, idMatch) ==
    IF idMatch.index >= 0
    THEN tailSpan(base, text, sliceFrom(text, idMatch.index))
    ELSE <<>>

\* file.ts 396-406: the span of the identifier line of a block note, taken
\* from capture group 1 and offset by the index of the match
blockIDSpan(m) == idTailSpan(m.index, m1(m), matchIDTail(m1(m)))

\* file.ts 456-461: the span pushed for the match of InlineNote.ID_REGEXP
inlineSpan(base, idMatch) ==
    IF idMatch.index >= 0
    THEN << <<base + idMatch.index, base + idMatch.index + idMatch.length>> >>
    ELSE <<>>

\* file.ts 455-462: the span of the identifier marker of an inline note
inlineIDSpan(m) == inlineSpan(m.index, matchInlineID(m1(m)))

\* one iteration of the loop of scanNotes (dialect "block", file.ts 365-422)
\* or of scanInlineNotes (dialect "inline", file.ts 426-474) on the state st
scanOne(st, dialect, m) ==
    IF m.ident = Null
    THEN [st EXCEPT !.add = Append(@, NoteOf(dialect, m)),
                    !.idx = Append(@, positionOf(m)),
                    !.seen = Append(@, Seen(dialect, m, st.ign, "add"))]
    ELSE LET span == IF dialect = "block" THEN blockIDSpan(m) ELSE inlineIDSpan(m)
             out  == outcomeOf(m.ident)
         IN  [st EXCEPT !.idspans = @ \o span,
                        !.edit = IF out = "edit"
                                 THEN Append(@, [note |-> NoteOf(dialect, m),
                                                 identifier |-> m.ident])
                                 ELSE @,
                        !.seen = Append(@, Seen(dialect, m, st.ign, out))]

RECURSIVE scanAll(_, _, _)
scanAll(st, dialect, ms) ==
    IF ms = <<>> THEN st
    ELSE scanAll(scanOne(st, dialect, Head(ms)), dialect, Tail(ms))

\* the fields a scan pass reads and writes
ScanState(add, idx) ==
    [add |-> add, idx |-> idx, edit |-> notes_to_edit, ign |-> ignore_spans,
     idspans |-> existingIDSpans, seen |-> considered]

\* scanNotes, file.ts 364-423
ScanNotes ==
    /\ pc = "scanNotes"
    /\ pc' = "scanInlineNotes"
    /\ LET st == scanAll(ScanState(notes_to_add, id_indexes), "block", matches.note)
       IN  /\ notes_to_add' = st.add
           /\ id_indexes' = st.idx
           /\ notes_to_edit' = st.edit
           /\ existingIDSpans' = st.idspans
           /\ considered' = st.seen
    /\ UNCHANGED <<syncVars, deleteNotes, ctxVars, bufVars, docVars, composed, recVars, ignore_spans,
                   inline_notes_to_add, inline_id_indexes, regex_notes_to_add,
                   regex_id_indexes, notes_to_delete>>

\* scanInlineNotes, file.ts 425-475
ScanInlineNotes ==
    /\ pc = "scanInlineNotes"
    /\ pc' = "search"
    /\ LET st == scanAll(ScanState(inline_notes_to_add, inline_id_indexes),
                         "inline", matches.inline)
       IN  /\ inline_notes_to_add' = st.add
           /\ inline_id_indexes' = st.idx
           /\ notes_to_edit' = st.edit
           /\ existingIDSpans' = st.idspans
           /\ considered' = st.seen
    /\ UNCHANGED <<syncVars, deleteNotes, ctxVars, bufVars, docVars, composed, recVars, ignore_spans,
                   notes_to_add, id_indexes, regex_notes_to_add,
                   regex_id_indexes, notes_to_delete>>

\* file.ts 527-540: the span of the identifier at the end of a regex match
regexIDSpan(m) ==
    IF m.search_id /\ Truthy(m.ident)
    THEN idTailSpan(m.index, m0(m), matchIDTail(m0(m)))
    ELSE <<>>

\* one entry of the history of search: the note type and the variant of the
\* expression that matched are kept with it
SeenRegex(m, before, outcome) ==
    Seen("regex", m, before, outcome)
        @@ [type |-> m.type, search_id |-> m.search_id, search_tags |-> m.search_tags]

\* a plausible slip: the span of a rejected match left in the ignore set
keepSpan(spans) == spans

\* this.ignore_spans.pop(), file.ts 506 and 516
popSpan(spans) == SubSeq(spans, 1, Len(spans) - 1)

\* one match of the loop of search, file.ts 486-541; findignore (57-64) tests
\* the match against the ignore spans as they are when the loop reaches it
searchOne(st, m) ==
    IF contained_in(SpanOf(m), st.ign)
    THEN [st EXCEPT !.seen = Append(@, SeenRegex(m, st.ign, "ignored"))]
    ELSE
    LET pushed == Append(st.ign, SpanOf(m))
        out    == IF m.search_id THEN outcomeOf(m.ident)
                  ELSE IF m.ident = CLOZE_ERROR THEN "cloze" ELSE "add"
        st1    == [st EXCEPT !.seen = Append(@, SeenRegex(m, st.ign, out))]
    IN  IF out = "cloze"
        THEN \* this.ignore_spans.pop(); continue
             [st1 EXCEPT !.ign = popSpan(pushed)]
        ELSE [st1 EXCEPT
                !.ign = pushed,
                !.edit = IF out = "edit"
                         THEN Append(@, [note |-> NoteOf("regex", m),
                                         identifier |-> m.ident])
                         ELSE @,
                !.add = IF out = "add" THEN Append(@, NoteOf("regex", m)) ELSE @,
                !.idx = IF out = "add" THEN Append(@, m.index + m.length) ELSE @,
                !.idspans = @ \o regexIDSpan(m)]

RECURSIVE searchAll(_, _)
searchAll(st, ms) ==
    IF ms = <<>> THEN st ELSE searchAll(searchOne(st, Head(ms)), Tail(ms))

\* the matches of one variant of the regexp of note_type, in document order
RECURSIVE variantMatches(_, _, _, _)
variantMatches(ms, note_type, sid, stags) ==
    IF ms = <<>> THEN <<>>
    ELSE LET m == Head(ms)
             r == variantMatches(Tail(ms), note_type, sid, stags)
         IN  IF m.type = note_type /\ m.search_id = sid /\ m.search_tags = stags
             THEN <<m>> \o r ELSE r

\* a plausible slip: the plain expression tried first
VariantsPlainFirst ==
    << <<FALSE, FALSE>>, <<FALSE, TRUE>>, <<TRUE, FALSE>>, <<TRUE, TRUE>> >>

\* the four variants in the order of the loops of search, file.ts 481-482
Variants == << <<TRUE, TRUE>>, <<TRUE, FALSE>>, <<FALSE, TRUE>>, <<FALSE, FALSE>> >>

\* search, file.ts 477-544
RECURSIVE search(_, _, _)
search(st, note_type, k) ==
    IF k > Len(Variants) THEN st
    ELSE search(searchAll(st, variantMatches(matches.regex, note_type,
                                             Variants[k][1], Variants[k][2])),
                note_type, k + 1)

\* tags_str.split(','), file.ts 549 and 558
RECURSIVE splitFrom(_, _)

splitAt(s, i, k) ==
    IF k < 0 THEN <<sliceFrom(s, i)>>
    ELSE <<slice(s, i, k)>> \o splitFrom(s, k + 1)

splitFrom(s, i) == splitAt(s, i, indexOfFrom(s, ",", i))

\* .split(',').map(t => t.trim())
splitTags(s) == [k \in DOMAIN splitFrom(s, 0) |-> trim(splitFrom(s, 0)[k])]

\* file.ts 549: the required tags of a note type, the empty ones dropped
requiredTagsOf(tags_str) == SelectSeq(splitTags(tags_str), LAMBDA t : t # "")

\* tags.some(tag => requiredTags.includes(tag))
someIncluded(tags, requiredTags) ==
    \E k \in DOMAIN tags : \E r \in DOMAIN requiredTags : requiredTags[r] = tags[k]

\* file.ts 553-561: file_cache.frontmatter?.tags, an array or a string
frontmatterTagsMatch(requiredTags) ==
    IF file_cache.fmtags.kind = "array"
    THEN someIncluded(file_cache.fmtags.array, requiredTags)
    ELSE IF file_cache.fmtags.kind = "string" /\ file_cache.fmtags.string # ""
    THEN someIncluded(splitTags(file_cache.fmtags.string), requiredTags)
    ELSE FALSE

\* tagCache.tag.replace('#', ''), file.ts 567: the first # dropped
withoutHash(tag) ==
    IF indexOf(tag, "#") < 0 THEN tag
    ELSE slice(tag, 0, indexOf(tag, "#")) \o sliceFrom(tag, indexOf(tag, "#") + 1)

\* file.ts 564-570: the inline tags of the document
inlineTagsMatch(requiredTags) ==
    someIncluded([k \in DOMAIN file_cache.tags |-> withoutHash(file_cache.tags[k])],
                 requiredTags)

\* hasRequiredTag, file.ts 546-573
hasRequiredTag(tags_str) ==
    \/ trim(tags_str) = ""
    \/ requiredTagsOf(tags_str) = <<>>
    \/ frontmatterTagsMatch(requiredTagsOf(tags_str))
    \/ inlineTagsMatch(requiredTagsOf(tags_str))

\* scanFile, file.ts 580-594: the note types in declared order, those with
\* required tags first when data.regex_required_tags is set (a stable sort)
RECURSIVE selectTypes(_, _)
selectTypes(ts, tagged) ==
    IF ts = <<>> THEN <<>>
    ELSE LET r == selectTypes(Tail(ts), tagged)
         IN  IF (trim(data.regexp_tags[Head(ts)]) # "") = tagged
             THEN <<Head(ts)>> \o r ELSE r

\* a plausible slip: the note types left in declared order
declaredTypes == data.custom_regexps

noteTypes ==
    IF data.regex_required_tags
    THEN selectTypes(data.custom_regexps, TRUE) \o selectTypes(data.custom_regexps, FALSE)
    ELSE data.custom_regexps

\* scanFile, file.ts 596-608: the loop over the note types
RECURSIVE searchTypes(_, _)
searchTypes(st, ts) ==
    IF ts = <<>> THEN st
    ELSE IF data.regex_required_tags /\ ~hasRequiredTag(data.regexp_tags[Head(ts)])
         THEN searchTypes(st, Tail(ts))
         ELSE searchTypes(search(st, Head(ts), 1), Tail(ts))

\* scanFile, file.ts 580-608
SearchRegexps ==
    /\ pc = "search"
    /\ pc' = "postProcess"
    /\ LET st == searchTypes(ScanState(regex_notes_to_add, regex_id_indexes), noteTypes)
       IN  /\ regex_notes_to_add' = st.add
           /\ regex_id_indexes' = st.idx
           /\ notes_to_edit' = st.edit
           /\ ignore_spans' = st.ign
           /\ existingIDSpans' = st.idspans
           /\ considered' = st.seen
    /\ UNCHANGED <<syncVars, deleteNotes, ctxVars, bufVars, docVars, composed, recVars, notes_to_add, id_indexes,
                   inline_notes_to_add, inline_id_indexes, notes_to_delete>>

----------------------------------------------------------------------------
(* The identifier reconciler: postProcessFrontmatterID, file.ts 614-693 *)

Last(q) == q[Len(q)]
Pop(q) == SubSeq(q, 1, Len(q) - 1)

\* the lists the reconciler reads and writes
Lists ==
    [notes_to_add |-> notes_to_add, id_indexes |-> id_indexes,
     inline_notes_to_add |-> inline_notes_to_add, inline_id_indexes |-> inline_id_indexes,
     regex_notes_to_add |-> regex_notes_to_add, regex_id_indexes |-> regex_id_indexes,
     notes_to_edit |-> notes_to_edit, useFrontmatterID |-> useFrontmatterID,
     notesToWriteInline |-> notesToWriteInline]

\* a plausible slip: the notes that carry an identifier not counted
totalNotesToAdd ==
    Len(notes_to_add) + Len(inline_notes_to_add) + Len(regex_notes_to_add)

\* file.ts 615
totalNotes ==
    Len(notes_to_add) + Len(inline_notes_to_add) + Len(regex_notes_to_add)
        + Len(notes_to_edit)

frontmatterIDKnown == frontmatterID \in data.EXISTING_IDS

Promoted(note) == [note |-> note, identifier |-> frontmatterID]

\* file.ts 619-670: exactly one note and the setting on
frontmatterBranch ==
    LET L == [Lists EXCEPT !.useFrontmatterID = TRUE]
    IN  IF ~Truthy(frontmatterID) THEN L
        ELSE IF Len(notes_to_add) = 1
        THEN IF frontmatterIDKnown
             THEN [L EXCEPT !.notes_to_add = Pop(@),
                            !.id_indexes = Pop(@),
                            !.notes_to_edit = Append(@, Promoted(Last(notes_to_add)))]
             ELSE L
        ELSE IF Len(inline_notes_to_add) = 1 \/ Len(regex_notes_to_add) = 1
        THEN IF Len(inline_notes_to_add) > 0
             THEN IF frontmatterIDKnown
                  THEN [L EXCEPT !.inline_notes_to_add = Pop(@),
                                 !.inline_id_indexes = Pop(@),
                                 !.notes_to_edit =
                                     Append(@, Promoted(Last(inline_notes_to_add)))]
                  ELSE L
             ELSE IF frontmatterIDKnown
                  THEN [L EXCEPT !.regex_notes_to_add = Pop(@),
                                 !.regex_id_indexes = Pop(@),
                                 !.notes_to_edit =
                                     Append(@, Promoted(Last(regex_notes_to_add)))]
                  ELSE L
        ELSE IF Len(notes_to_edit) = 1
        THEN IF notes_to_edit[1].identifier # frontmatterID /\ frontmatterIDKnown
             THEN [L EXCEPT !.notes_to_edit[1].identifier = frontmatterID]
             ELSE L
        ELSE L

\* a plausible slip: the fallback takes the last insertion position where
\* it takes the first note
fallbackPopsIndex ==
    LET L == [Lists EXCEPT !.useFrontmatterID = FALSE]
    IN  IF Truthy(frontmatterID) /\ frontmatterIDKnown /\ Len(notes_to_add) > 0
        THEN [L EXCEPT !.notes_to_add = Tail(@),
                       !.id_indexes = Pop(@),
                       !.notes_to_edit = Append(@, Promoted(Head(notes_to_add))),
                       !.notesToWriteInline =
                           Append(@, [position |-> Last(id_indexes),
                                      id |-> frontmatterID])]
        ELSE L

\* file.ts 671-692: the fallback, front-matter mode off
fallbackBranch ==
    LET L == [Lists EXCEPT !.useFrontmatterID = FALSE]
    IN  IF Truthy(frontmatterID) /\ frontmatterIDKnown /\ Len(notes_to_add) > 0
        THEN LET shifted == [L EXCEPT !.notes_to_add = Tail(@),
                                      !.id_indexes = IF @ = <<>> THEN @ ELSE Tail(@)]
             IN  IF id_indexes # <<>>
                 THEN [shifted EXCEPT
                         !.notes_to_edit = Append(@, Promoted(Head(notes_to_add))),
                         !.notesToWriteInline =
                             Append(@, [position |-> Head(id_indexes),
                                        id |-> frontmatterID])]
                 ELSE shifted
        ELSE L

postProcessFrontmatterID ==
    IF data.saveIDToFrontmatter /\ totalNotes = 1
    THEN frontmatterBranch
    ELSE fallbackBranch

\* a plausible slip: the markers inside an ignore span left out, as
\* findignore leaves out the matches of search
RECURSIVE outsideIgnored(_)
outsideIgnored(ms) ==
    IF ms = <<>> THEN <<>>
    ELSE (IF contained_in(SpanOf(Head(ms)), ignore_spans) THEN <<>>
          ELSE <<Head(ms).ident>>) \o outsideIgnored(Tail(ms))

scanDeletionsOutsideIgnored == notes_to_delete \o outsideIgnored(matches.empty)

\* scanDeletions, file.ts 183-187
scanDeletions ==
    notes_to_delete \o [k \in 1..Len(matches.empty) |-> matches.empty[k].ident]

\* the end of scanFile, file.ts 609-611
PostProcess ==
    /\ pc = "postProcess"
    /\ pc' = "scanned"
    /\ all_notes_to_add' = notes_to_add \o inline_notes_to_add \o regex_notes_to_add
    /\ notes_to_delete' = scanDeletions
    /\ LET L == postProcessFrontmatterID
       IN  /\ notes_to_add' = L.notes_to_add
           /\ id_indexes' = L.id_indexes
           /\ inline_notes_to_add' = L.inline_notes_to_add
           /\ inline_id_indexes' = L.inline_id_indexes
           /\ regex_notes_to_add' = L.regex_notes_to_add
           /\ regex_id_indexes' = L.regex_id_indexes
           /\ notes_to_edit' = L.notes_to_edit
           /\ useFrontmatterID' = L.useFrontmatterID
           /\ notesToWriteInline' = L.notesToWriteInline
    /\ UNCHANGED <<syncVars, deleteNotes, ctxVars, bufVars, docVars, composed, ignore_spans, existingIDSpans,
                   considered, note_ids, frontmatterID>>

----------------------------------------------------------------------------
(* The remote store answers, and the rewrite: writeIDs, file.ts 699-803 *)

\* the identifier the remote store gives the k-th note it is asked to create
NewID(k) == 100 + k

\* the answer to getAddNotes (file.ts 234-240), one entry for each note of
\* all_notes_to_add: every note created, or one of them failed (null)
AssignIDs ==
    /\ pc = "scanned"
    /\ pc' = "answered"
    /\ \E failed \in 0..Len(all_notes_to_add) :
          note_ids' = [k \in 1..Len(all_notes_to_add) |->
                          IF k = failed THEN Null ELSE NewID(k)]
    /\ UNCHANGED <<syncVars, deleteNotes, ctxVars, bufVars, docVars, composed, scanVars, all_notes_to_add,
                   useFrontmatterID, frontmatterID, notesToWriteInline>>

\* this.note_ids[k] for a 0-based k: undefined (falsy) past the end
noteIDAt(k) == IF k + 1 <= Len(note_ids) THEN note_ids[k + 1] ELSE Null

\* getTargetID, file.ts 703-708
getTargetID ==
    IF Len(notes_to_edit) > 0 THEN notes_to_edit[1].identifier
    ELSE IF Len(note_ids) > 0 THEN note_ids[1]
    ELSE Null

\* file.ts 712-714: the removal of every existing inline identifier
removalEdits == [k \in 1..Len(existingIDSpans) |->
                    Edit(existingIDSpans[k][1], existingIDSpans[k][2], "")]

\* a plausible slip: the nid line appended whether there is one or not
appendNid(frontmatter, line) == frontmatter \o "\n" \o line

\* file.ts 723-727: the nid line replaced, or appended when there is none
withNid(frontmatter, line) ==
    IF nidLine(frontmatter) >= 0
    THEN replaceNidLine(frontmatter, line)
    ELSE frontmatter \o "\n" \o line

\* file.ts 720-735: the front matter rewritten, or inserted at offset 0
frontmatterWrite(match, frontmatter, line) ==
    IF match.index >= 0
    THEN <<Edit(0, match.length, "---\n" \o trim(withNid(frontmatter, line)) \o "\n---")>>
    ELSE <<Edit(0, 0, "---\n" \o line \o "\n---\n")>>

\* file.ts 717-736: if (targetID)
writeFrontmatterID(targetID) ==
    IF ~Truthy(targetID) THEN <<>>
    ELSE frontmatterWrite(matchFrontmatter(file), frontmatterText(file),
                          "nid: " \o ToString(targetID))

\* file.ts 717-736: the front-matter identifier written or updated
frontmatterWriteEdits == writeFrontmatterID(getTargetID)

\* a plausible slip: the value cleared whether nid is the last property or not
clearNid(frontmatter) == replaceNidLine(frontmatter, "nid:")

\* file.ts 745-754: nid removed when it is the last property, cleared otherwise
withoutNid(frontmatter) ==
    IF nidOnLastLine(trim(frontmatter))
    THEN removeLastNid(frontmatter)
    ELSE replaceNidLine(frontmatter, "nid:")

\* file.ts 741-759
frontmatterRemove(match, frontmatter) ==
    IF match.index >= 0 /\ nidLine(frontmatter) >= 0
    THEN <<Edit(0, match.length, "---\n" \o withoutNid(frontmatter) \o "\n---")>>
    ELSE <<>>

\* file.ts 739-761: the front-matter identifier removed
frontmatterRemoveEdits ==
    IF Truthy(frontmatterID)
    THEN frontmatterRemove(matchFrontmatter(file), frontmatterText(file))
    ELSE <<>>

\* file.ts 764-766
fallbackWriteEdits ==
    [k \in 1..Len(notesToWriteInline) |->
        Edit(notesToWriteInline[k].position, notesToWriteInline[k].position,
             id_to_str(notesToWriteInline[k].id, FALSE, data.comment))]

\* the marker written for a new note of a dialect, file.ts 772, 780, 789
markerText(dialect, identifier) ==
    IF dialect = "block" THEN id_to_str(identifier, FALSE, data.comment)
    ELSE IF dialect = "inline" THEN id_to_str(identifier, TRUE, data.comment)
    ELSE "\n" \o trim(id_to_str(identifier, FALSE, data.comment))

\* the edits of the positions idx whose note has an identifier: the k-th
\* position takes this.note_ids[k - 1 + offset]
RECURSIVE writeEdits(_, _, _, _)
writeEdits(idx, k, offset, dialect) ==
    IF k > Len(idx) THEN <<>>
    ELSE LET identifier == noteIDAt(k - 1 + offset)
         IN  (IF Truthy(identifier)
              THEN <<Edit(idx[k], idx[k], markerText(dialect, identifier))>>
              ELSE <<>>)
             \o writeEdits(idx, k + 1, offset, dialect)

\* file.ts 769-792
inlineWriteEdits ==
    writeEdits(id_indexes, 1, 0, "block")
    \o writeEdits(inline_id_indexes, 1, Len(notes_to_add), "inline")
    \o writeEdits(regex_id_indexes, 1,
                  Len(notes_to_add) + Len(inline_notes_to_add), "regex")

\* the edit list of writeIDs, file.ts 700-793
writeIDsEdits ==
    IF useFrontmatterID
    THEN removalEdits \o frontmatterWriteEdits
    ELSE frontmatterRemoveEdits \o fallbackWriteEdits \o inlineWriteEdits

\* writeIDs, file.ts 699-803
WriteIDs ==
    /\ pc = "answered"
    /\ pc' = "written"
    /\ \E es \in {writeIDsEdits} :
          /\ edits' = es
          /\ \E text \in {apply_edits(file, es)} :
                file' = IF useFrontmatterID THEN text ELSE fix_newline_ids(text)
    /\ UNCHANGED <<syncVars, deleteNotes, ctxVars, original_file, docVars, composed, scanVars, recVars>>

----------------------------------------------------------------------------
(* The bulk delete of a document: checkAndBulkDelete, bulk-delete.ts 6-87 *)

\* (?:<!--)?(?:ID: (\d+).*) at index k of s
idBodyAt(s, k) == plainIDAt(s, afterComment(s, k))

\* whether ID_REGEXP_STR matches at index k of s, with its optional \n
idStartsAt(s, k) ==
    \/ idBodyAt(s, k)
    \/ charAt(s, k) = "\n" /\ idBodyAt(s, k + 1)

\* the index of the end of the match of ID_REGEXP_STR that starts at k
idEndFrom(s, k) == lineEnd(s, IF charAt(s, k) = "\n" THEN k + 1 ELSE k)

\* content.replace(regex, ""), bulk-delete.ts 54: every match of
\* ID_REGEXP_STR removed
RECURSIVE stripFrom(_, _)

stripAt(s, i, k) ==
    IF k < 0 THEN sliceFrom(s, i)
    ELSE slice(s, i, k) \o stripFrom(s, idEndFrom(s, k))

stripFrom(s, i) == stripAt(s, i, leftmost({ k \in i..(Len(s) - 1) : idStartsAt(s, k) }))

removeIDs(s) == stripFrom(s, 0)

\* the index after the white space from j on
RECURSIVE skipSpace(_, _)
skipSpace(s, j) == IF IsSpace(charAt(s, j)) THEN skipSpace(s, j + 1) ELSE j

\* frontmatter.match(/^nid:\s*(\d+)/m), bulk-delete.ts 18: the index of the
\* digits of the leftmost match, -1 for none
nidDigits(fm) ==
    leftmost({ skipSpace(fm, i + 4) : i \in
        { i \in 0..Len(fm) : /\ IsLineStart(fm, i) /\ startsWithAt(fm, "nid:", i)
                             /\ IsDigit(charAt(fm, skipSpace(fm, i + 4))) } })

valueAt(fm, j) == IF j < 0 THEN Null ELSE digitsValue(fm, j, 0)

\* bulk-delete.ts 13-25: the identifier of the front matter of the content
bulkFrontmatterID(content) ==
    IF matchFrontmatter(content).index < 0 THEN Null
    ELSE valueAt(frontmatterText(content), nidDigits(frontmatterText(content)))

\* bulk-delete.ts 9-10 and 27: whether ids is empty
noIDs(content) ==
    /\ ~\E k \in 0..(Len(content) - 1) : idStartsAt(content, k)
    /\ ~Truthy(bulkFrontmatterID(content))

\* bulk-delete.ts 59-69: nid removed when it is the last property, cleared
\* otherwise
bulkWithoutNid(fmContent) ==
    IF nidOnLastLine(trim(fmContent))
    THEN removeLastNid(fmContent)
    ELSE replaceNidLine(fmContent, "nid:")

\* bulk-delete.ts 58-72: newContent.replace(frontmatterRegex, ...)
bulkRemoveNid(newContent) ==
    IF matchFrontmatter(newContent).index < 0 THEN newContent
    ELSE "---\n" \o bulkWithoutNid(frontmatterText(newContent)) \o "\n---"
            \o sliceFrom(newContent, matchFrontmatter(newContent).length)

\* bulk-delete.ts 50-73: the content written back to the file
bulkContent(content) ==
    IF Truthy(bulkFrontmatterID(content))
    THEN bulkRemoveNid(removeIDs(content))
    ELSE removeIDs(content)

\* a plausible slip: the file is rewritten whatever the remote store answers
ignoresFailure(response) == TRUE

\* bulk-delete.ts 38-47: the request resolved without response.error
proceeds(response) == response = "ok"

BulkKept ==
    UNCHANGED <<syncVars, ctxVars, original_file, edits, docVars, composed, scanVars,
                recVars>>

\* checkAndBulkDelete, bulk-delete.ts 6-32 and 86: the content is read and
\* its identifiers collected; with none the function returns (27-30), else
\* the confirmation modal is opened
BulkDelete ==
    /\ pc = "compose"
    /\ pc' = IF noIDs(file) THEN "bulkDeleted" ELSE "confirm"
    /\ UNCHANGED <<file, deleteNotes>>
    /\ BulkKept

\* bulk-delete.ts 32-38: the user confirms, and the callback of the modal
\* sends deleteNotes, or dismisses the modal
ConfirmDelete ==
    /\ pc = "confirm"
    /\ \/ pc' = "deleteNotes" /\ deleteNotes' = "pending"
       \/ pc' = "bulkDeleted" /\ UNCHANGED deleteNotes
    /\ UNCHANGED file
    /\ BulkKept

\* bulk-delete.ts 38-47: await AnkiConnect.invoke('deleteNotes') settles:
\* resolved, resolved with response.error, or rejected
DeleteNotes ==
    /\ pc = "deleteNotes"
    /\ \E response \in {"ok", "error", "threw"} :
          /\ deleteNotes' = response
          /\ pc' = IF proceeds(response) THEN "modify" ELSE "bulkDeleted"
    /\ UNCHANGED file
    /\ BulkKept

\* bulk-delete.ts 49-84: the new content is built from the content read at
\* line 7 and written with app.vault.modify, which may throw
Modify ==
    /\ pc = "modify"
    /\ pc' = "bulkDeleted"
    /\ \E written \in BOOLEAN :
          file' = IF written THEN bulkContent(file) ELSE file
    /\ UNCHANGED deleteNotes
    /\ BulkKept

Next ==
    \/ BulkDelete
    \/ ConfirmDelete
    \/ DeleteNotes
    \/ Modify
    \/ Compose
    \/ SetupScan
    \/ ScanNotes
    \/ ScanInlineNotes
    \/ SearchRegexps
    \/ PostProcess
    \/ AssignIDs
    \/ WriteIDs

Spec == Init /\ [][Next]_vars

----------------------------------------------------------------------------
(* Claims about the scan, the reconciler and the rewrite *)

Scanned == pc \in {"scanned", "answered", "written"}

\* the matches that became a note to add or a note to edit
Accepted == { k \in DOMAIN considered : considered[k].outcome \in {"add", "edit"} }

\* the matches that became a new note, and those that became an edit
AcceptedNew == { k \in DOMAIN considered : considered[k].outcome = "add" }
AcceptedOld == { k \in DOMAIN considered : considered[k].outcome = "edit" }

\* span a lies in span b, with 1 character of leeway on each side
Within(a, b) == a[1] >= b[1] - 1 /\ a[2] <= b[2] + 1

\* spans a and b share at most 1 character
Apart(a, b) == a[2] <= b[1] + 1 \/ b[2] <= a[1] + 1

\* C4: the edit set writeIDs passes to apply_edits is pairwise
\* non-overlapping and no two of its edits have the same start offset.
C4_EditSetDisjoint ==
    pc = "written" => NonOverlapping(edits) /\ DistinctStarts(edits)

\* C5: once the scan is complete the spans of the accepted matches of all
\* dialects are pairwise non-overlapping, up to 1 character.
C5_AcceptedSpansApart ==
    Scanned =>
        \A i, j \in Accepted :
            i < j => Apart(considered[i].span, considered[j].span)

\* the spans of the ignore set a match met, its own span left out
OtherSpans(k) ==
    { considered[k].before[n] : n \in DOMAIN considered[k].before }
        \ { considered[k].span }

\* C6: a match is accepted only if its span lies in no span that was in the
\* ignore set when it was considered (1 character of leeway), and the span of
\* an accepted match is in the ignore set when the next match is considered.
C6_AcceptedOutsideIgnoreSet ==
    \A k \in Accepted :
        /\ \A b \in OtherSpans(k) : ~Within(considered[k].span, b)
        /\ k < Len(considered) =>
              \E n \in DOMAIN considered[k + 1].before :
                  considered[k + 1].before[n] = considered[k].span

\* C7: after scanFile useFrontmatterID is set exactly when the setting
\* saveIDToFrontmatter is on and the document holds exactly one note, new
\* notes and notes to edit of all dialects counted together.
C7_FrontmatterModeIffSingleNote ==
    Scanned =>
        (useFrontmatterID <=>
            data.saveIDToFrontmatter /\ Cardinality(Accepted) = 1)

\* C7 (reached): front-matter mode is on after the scan of a document whose
\* one note carries a known identifier.
C7_SingleEditNoteInFrontmatterMode ==
    /\ pc = "scanned"
    /\ useFrontmatterID
    /\ Cardinality(AcceptedOld) = 1

\* the value of the nid property of the front matter the scan started from
FrontmatterNid == IF file_cache.frontmatter /\ file_cache.nid # ""
                  THEN parseInt(file_cache.nid) ELSE Null

\* the one note of a document in front-matter mode
TheNote == LET k == CHOOSE k \in Accepted : TRUE
           IN  [dialect |-> considered[k].dialect,
                index   |-> considered[k].span[1],
                length  |-> considered[k].span[2] - considered[k].span[1]]

\* C8: front-matter mode, one note without an inline identifier, and the
\* front-matter identifier known to the remote store: after scanFile the
\* note is in notes_to_edit under that identifier, it is not among the notes
\* that will be created, and no identifier insertion is scheduled for it.
C8_PromotedNoteNotCreated ==
    (/\ Scanned
     /\ data.saveIDToFrontmatter
     /\ Cardinality(Accepted) = 1 /\ Cardinality(AcceptedNew) = 1
     /\ Truthy(FrontmatterNid) /\ FrontmatterNid \in data.EXISTING_IDS)
    => /\ notes_to_edit = <<[note |-> TheNote, identifier |-> FrontmatterNid]>>
       /\ \A n \in DOMAIN all_notes_to_add : all_notes_to_add[n] # TheNote
       /\ id_indexes = <<>> /\ inline_id_indexes = <<>> /\ regex_id_indexes = <<>>

\* the inline identifier of the one note of the document
TheInlineID == considered[CHOOSE k \in Accepted : TRUE].ident

\* the text holds an inline identifier marker of id
HasMarker(text, id) ==
    \E i \in 0..Len(text) :
        /\ startsWithAt(text, "ID: " \o ToString(id), i)
        /\ ~IsDigit(charAt(text, i + 4 + Len(ToString(id))))

\* the front matter of the text holds the line nid: id
HoldsNid(text, id) ==
    /\ matchFrontmatter(text).index >= 0
    /\ LET fm == frontmatterText(text)
           i  == nidLine(fm)
       IN  /\ i >= 0
           /\ trim(slice(fm, i + 4, lineEnd(fm, i))) = ToString(id)

\* C9: front-matter mode, one note whose inline identifier differs from the
\* front-matter identifier.  If the front-matter identifier is known, the
\* note is edited under it, writeIDs deletes the inline marker and the front
\* matter holds the identifier afterwards; if it is not known the note keeps
\* its inline identifier.
C9_FrontmatterIDWins ==
    (/\ pc = "written"
     /\ data.saveIDToFrontmatter
     /\ Cardinality(Accepted) = 1 /\ Cardinality(AcceptedOld) = 1
     /\ Truthy(FrontmatterNid) /\ FrontmatterNid # TheInlineID)
    => IF FrontmatterNid \in data.EXISTING_IDS
       THEN /\ notes_to_edit = <<[note |-> TheNote, identifier |-> FrontmatterNid]>>
            /\ ~HasMarker(file, TheInlineID)
            /\ HoldsNid(file, FrontmatterNid)
       ELSE notes_to_edit = <<[note |-> TheNote, identifier |-> TheInlineID]>>

\* the first new note of the document, in document order
FirstNew == CHOOSE k \in AcceptedNew :
                \A j \in AcceptedNew : considered[k].span[1] <= considered[j].span[1]

NoteAt(k) == [dialect |-> considered[k].dialect,
              index   |-> considered[k].span[1],
              length  |-> considered[k].span[2] - considered[k].span[1]]

\* the front matter of the text has no nid property with a value
NidRemoved(text) ==
    \/ matchFrontmatter(text).index < 0
    \/ LET fm == frontmatterText(text)
           i  == nidLine(fm)
       IN  i < 0 \/ trim(slice(fm, i + 4, lineEnd(fm, i))) = ""

\* C10: front-matter mode off and a known identifier in the front matter:
\* the first new note of the document, of any dialect, is edited under that
\* identifier, an inline marker with the identifier is written, and the
\* identifier is removed from the front matter; it is never removed from the
\* front matter without being written inline.
C10_FrontmatterIDReassigned ==
    (/\ pc = "written"
     /\ ~data.saveIDToFrontmatter \/ Cardinality(Accepted) > 1
     /\ Truthy(FrontmatterNid) /\ FrontmatterNid \in data.EXISTING_IDS)
    => /\ AcceptedNew # {} =>
            /\ \E n \in DOMAIN notes_to_edit :
                  notes_to_edit[n] = [note |-> NoteAt(FirstNew),
                                      identifier |-> FrontmatterNid]
            /\ HasMarker(file, FrontmatterNid)
            /\ NidRemoved(file)
       /\ NidRemoved(file) => HasMarker(file, FrontmatterNid)

----------------------------------------------------------------------------
(* Claims about the identifiers the rewrite writes *)

\* the notes that are still to be created when writeIDs runs
NewNotes == notes_to_add \o inline_notes_to_add \o regex_notes_to_add

\* the index of a note in all_notes_to_add: the index of its entry in note_ids
IndexInAll(note) == CHOOSE n \in DOMAIN all_notes_to_add : all_notes_to_add[n] = note

\* the match of NOTE_REGEXP or INLINE_REGEXP a block or inline note came from
MatchOfNote(note) ==
    LET ms == IF note.dialect = "block" THEN matches.note ELSE matches.inline
    IN  ms[CHOOSE k \in DOMAIN ms :
                 ms[k].index = note.index /\ ms[k].length = note.length]

\* the offset at which the marker of a new note belongs
InsertionOf(note) ==
    IF note.dialect = "regex" THEN note.index + note.length
    ELSE positionOf(MatchOfNote(note))

\* the insertions of an identifier marker of the remote store at an offset
MarkersAt(offset, dialect) ==
    { k \in DOMAIN note_ids :
        /\ Truthy(note_ids[k])
        /\ \E e \in DOMAIN edits :
              /\ edits[e].start = offset /\ edits[e].end = offset
              /\ edits[e].text = markerText(dialect, note_ids[k]) }

\* C11: front-matter mode off: for every new note, the marker writeIDs
\* inserts at the note's own position carries the identifier the remote store
\* gave that note (the entry of note_ids at the note's index in
\* all_notes_to_add), and never the identifier of another note, also when the
\* reconciler has moved a note out of notes_to_add.
C11_MarkerCarriesOwnIdentifier ==
    (pc = "written" /\ ~useFrontmatterID) =>
        \A n \in DOMAIN NewNotes :
            LET note == NewNotes[n]
                own  == IndexInAll(note)
            IN  MarkersAt(InsertionOf(note), note.dialect)
                    = IF Truthy(note_ids[own]) THEN {own} ELSE {}

\* the matches whose identifier the remote store does not know
Unknown == { k \in DOMAIN considered : considered[k].outcome = "unknown" }

\* the note is in the notes to add or in the notes to edit
InSyncPlan(note) ==
    \/ \E n \in DOMAIN NewNotes : NewNotes[n] = note
    \/ \E n \in DOMAIN all_notes_to_add : all_notes_to_add[n] = note
    \/ \E n \in DOMAIN notes_to_edit : notes_to_edit[n].note = note

\* the text of a match in the document as it was scanned
TextOf(k) == slice(original_file, considered[k].span[1], considered[k].span[2])

\* text occurs in s
Occurs(text, s) == \E i \in 0..Len(s) : startsWithAt(s, text, i)

\* C12 (inline identifier): a note whose inline identifier is not known to
\* the remote store is in neither the notes to add nor the notes to edit, and
\* after writeIDs its text, identifier marker included, is still in the file.
C12_UnknownInlineUntouched ==
    \A k \in Unknown :
        /\ Scanned => ~InSyncPlan(NoteAt(k))
        /\ pc = "written" => Occurs(TextOf(k), file)

\* C12 (front-matter identifier): the one note of a document in
\* front-matter mode, whose front-matter identifier is not known to the
\* remote store, is in neither the notes to add nor the notes to edit, and
\* writeIDs leaves the file unchanged.
C12_UnknownFrontmatterUntouched ==
    (/\ data.saveIDToFrontmatter
     /\ Cardinality(Accepted) = 1 /\ Cardinality(AcceptedNew) = 1
     /\ Truthy(FrontmatterNid) /\ FrontmatterNid \notin data.EXISTING_IDS)
    => /\ Scanned => ~InSyncPlan(TheNote)
       /\ pc = "written" => file = original_file

\* C12: a note whose inline or front-matter identifier is not in the known
\* set of the remote store ends up in neither the notes to add nor the notes
\* to edit, and writeIDs leaves its text and its identifier marker unchanged.
C12_UnknownIdentifierUntouched ==
    C12_UnknownInlineUntouched /\ C12_UnknownFrontmatterUntouched

\* the entries of notes_to_edit that carry the front-matter identifier
FrontmatterOwners ==
    { n \in DOMAIN notes_to_edit : notes_to_edit[n].identifier = frontmatterID }

\* the matches whose own inline identifier is the front-matter identifier
CarriesFrontmatterID ==
    { k \in AcceptedOld : considered[k].ident = frontmatterID }

\* the notes without an inline identifier that the reconciler moved to
\* notes_to_edit under the front-matter identifier
GivenOwnership ==
    { k \in AcceptedNew :
        \E n \in DOMAIN notes_to_edit : notes_to_edit[n] = Promoted(NoteAt(k)) }

\* C13: after the scan and the reconciliation at most one note is associated
\* with the front-matter identifier: no two entries of notes_to_edit carry
\* it, and no note is given it while another note of the document carries it
\* as its inline identifier.  Documents in which the user wrote the same
\* inline identifier on two notes are left aside.
C13_OneFrontmatterOwner ==
    (Scanned /\ Truthy(frontmatterID) /\ Cardinality(CarriesFrontmatterID) <= 1) =>
        /\ Cardinality(FrontmatterOwners) <= 1
        /\ CarriesFrontmatterID # {} => GivenOwnership = {}

\* the custom-regex matches whose parse is a ClozeError
Rejected ==
    { k \in DOMAIN considered :
        considered[k].dialect = "regex" /\ considered[k].outcome = "cloze" }

\* the ignore set as the scan left it after it considered the k-th match
IgnoreSetAfter(k) ==
    IF k < Len(considered) THEN considered[k + 1].before ELSE ignore_spans

\* spans a and b share text
SharesText(a, b) == a[1] < b[2] /\ b[1] < a[2]

\* the matches considered after the k-th that lie on text of the k-th
LaterOnSameText(k) ==
    { j \in DOMAIN considered :
        j > k /\ SharesText(considered[j].span, considered[k].span) }

\* the span sp was in the ignore set before the k-th match, or was put there
\* by a match that was considered after the k-th and before the j-th
IgnoredApartFrom(k, j, sp) ==
    \/ \E n \in DOMAIN considered[k].before : considered[k].before[n] = sp
    \/ \E i \in (k + 1)..(j - 1) :
          /\ considered[i].outcome \notin {"cloze", "ignored"}
          /\ considered[i].span = sp

\* the number of entries the notes to add and the notes to edit hold for a note
EntriesOf(note) ==
    Cardinality({ n \in DOMAIN NewNotes : NewNotes[n] = note })
        + Cardinality({ n \in DOMAIN notes_to_edit : notes_to_edit[n].note = note })

\* the accepted matches of the same dialect and span as the k-th
AcceptedOn(k) ==
    { j \in Accepted : /\ considered[j].dialect = considered[k].dialect
                       /\ considered[j].span = considered[k].span }

Settled ==
    \A k \in DOMAIN considered : considered[k].outcome \in {"edit", "ignored"}

\* front-matter mode off, every note carries a known inline identifier and
\* the front matter holds no identifier
InlineIDsInPlace ==
    /\ ~useFrontmatterID
    /\ Settled /\ AcceptedOld # {}
    /\ ~Truthy(FrontmatterNid)

\* front-matter mode on, the one note carries no inline identifier and the
\* front matter holds a known one
FrontmatterIDInPlace ==
    /\ useFrontmatterID
    /\ Cardinality(Accepted) = 1 /\ Cardinality(AcceptedNew) = 1
    /\ Unknown = {}
    /\ Truthy(FrontmatterNid) /\ FrontmatterNid \in data.EXISTING_IDS

\* C15 (inline identifiers): nothing to do, front-matter mode off
C15_IdleInlineUnchanged ==
    (pc = "written" /\ InlineIDsInPlace) => edits = <<>> /\ file = original_file

\* C15 (front-matter identifier): nothing to do, front-matter mode on
C15_IdleFrontmatterUnchanged ==
    (pc = "written" /\ FrontmatterIDInPlace) => edits = <<>> /\ file = original_file

\* C15: scanning and rewriting a document whose notes all carry a known
\* identifier where the mode prescribes it, without new notes and deletion
\* markers, produces no edit and leaves the file unchanged byte for byte.
C15_IdleRunChangesNothing ==
    C15_IdleInlineUnchanged /\ C15_IdleFrontmatterUnchanged

\* fm without the line that starts at i and one adjacent line end
DropLineAt(fm, i) ==
    IF i < 0 THEN fm
    ELSE IF i > 0 THEN slice(fm, 0, i - 1) \o sliceFrom(fm, lineEnd(fm, i))
    ELSE sliceFrom(fm, lineEnd(fm, i) + 1)

\* the front matter of a text without its nid line
OtherProperties(text) ==
    DropLineAt(frontmatterText(text), nidLine(frontmatterText(text)))

\* the text after the front-matter block
BodyOf(text) == sliceFrom(text, Max(matchFrontmatter(text).length, 0))

\* after differs from before in the nid line of the front matter only, or in
\* a front-matter block with that line put before a text that had none
OnlyNidDiffers(before, after, id) ==
    IF matchFrontmatter(before).index < 0
    THEN after = "---\nnid: " \o ToString(id) \o "\n---\n" \o before
    ELSE /\ matchFrontmatter(after).index >= 0
         /\ OtherProperties(after) = OtherProperties(before)
         /\ BodyOf(after) = BodyOf(before)

\* a document with exactly one note, which carries no identifier that the
\* remote store knows, scanned with the front-matter setting on
OneNewNote ==
    /\ data.saveIDToFrontmatter
    /\ Cardinality(Accepted) = 1 /\ Cardinality(AcceptedNew) = 1
    /\ Unknown = {} /\ Rejected = {}
    /\ FrontmatterNid \notin data.EXISTING_IDS

\* C16: exactly one new note and front-matter mode on: once the remote store
\* has assigned N, the file has a front matter that holds nid: N and differs
\* from the scanned file in that line, or in the inserted block, only.
C16_OnlyNidLineWritten ==
    (pc = "written" /\ OneNewNote /\ Truthy(noteIDAt(0))) =>
        /\ HoldsNid(file, noteIDAt(0))
        /\ OnlyNidDiffers(original_file, file, noteIDAt(0))

\* the edits of writeIDs that write a front-matter block
FrontmatterEdits ==
    { e \in DOMAIN edits : edits[e].start = 0 /\ startsWithAt(edits[e].text, "---\n", 0) }

\* the front matter an edit writes: its text without the two delimiters
WrittenFrontmatter(e) == slice(edits[e].text, 4, Len(edits[e].text) - 4)

\* the line nid: id stands in fm where the nid line of fm0 stood: the
\* properties before it and after it are those of fm0
ReplacedInPlace(fm0, fm, id) ==
    /\ nidLine(fm) >= 0
    /\ slice(fm, nidLine(fm), lineEnd(fm, nidLine(fm))) = "nid: " \o ToString(id)
    /\ trim(slice(fm, 0, nidLine(fm))) = trim(slice(fm0, 0, nidLine(fm0)))
    /\ trim(sliceFrom(fm, lineEnd(fm, nidLine(fm))))
          = trim(sliceFrom(fm0, lineEnd(fm0, nidLine(fm0))))

\* the line nid: id is the last line of fm, after the properties of fm0
AppendedLast(fm0, fm, id) ==
    \E i \in 0..Len(fm) :
        /\ IsLineStart(fm, i)
        /\ sliceFrom(fm, i) = "nid: " \o ToString(id)
        /\ trim(slice(fm, 0, i)) = trim(fm0)

\* the edit e of writeIDs is the one the front matter of the scanned file
\* calls for
FrontmatterOutcome(e, id) ==
    IF matchFrontmatter(original_file).index < 0
    THEN edits[e] = Edit(0, 0, "---\nnid: " \o ToString(id) \o "\n---\n")
    ELSE /\ edits[e].end = matchFrontmatter(original_file).length
         /\ startsWithAt(edits[e].text, "\n---", Len(edits[e].text) - 4)
         /\ IF nidLine(frontmatterText(original_file)) >= 0
            THEN ReplacedInPlace(frontmatterText(original_file),
                                 WrittenFrontmatter(e), id)
            ELSE AppendedLast(frontmatterText(original_file),
                              WrittenFrontmatter(e), id)

\* C17: the rewrite of the front-matter identifier has three outcomes: the
\* value of an nid property is replaced in place; a block without nid gets
\* the line nid: N as its last line, before the closing delimiter; a file
\* without a block gets a new block by an insertion at offset 0.
C17_ThreeFrontmatterOutcomes ==
    (pc = "written" /\ useFrontmatterID) =>
        IF Truthy(getTargetID)
        THEN /\ Cardinality(FrontmatterEdits) = 1
             /\ \A e \in FrontmatterEdits : FrontmatterOutcome(e, getTargetID)
        ELSE FrontmatterEdits = {}

\* C17 (reached): the nid property of the scanned file held another value
\* than the one writeIDs wrote in its place.
C17_NidValueReplaced ==
    /\ pc = "written" /\ useFrontmatterID
    /\ Truthy(FrontmatterNid) /\ Truthy(getTargetID)
    /\ FrontmatterNid # getTargetID
    /\ HoldsNid(original_file, FrontmatterNid)
    /\ HoldsNid(file, getTargetID)

\* the nid line of the front matter fm holds its last property
NidIsLast(fm) ==
    nidLine(fm) >= 0 /\ AllSpace(sliceFrom(fm, lineEnd(fm, nidLine(fm))))

\* fm is fm0 without its nid line and the line end before it
NidLineRemoved(fm0, fm) ==
    fm = IF nidLine(fm0) = 0 THEN "" ELSE slice(fm0, 0, nidLine(fm0) - 1)

\* fm is fm0 with the value of nid cleared: the key stays on a line of its
\* own, and the properties around it are the same
NidValueCleared(fm0, fm) ==
    /\ nidLine(fm) = nidLine(fm0)
    /\ slice(fm, 0, nidLine(fm)) = slice(fm0, 0, nidLine(fm0))
    /\ slice(fm, nidLine(fm), lineEnd(fm, nidLine(fm))) = "nid:"
    /\ sliceFrom(fm, lineEnd(fm, nidLine(fm)))
          = sliceFrom(fm0, lineEnd(fm0, nidLine(fm0)))

\* the front matter of after is that of before with the identifier removed
IdentifierRemoved(before, after) ==
    /\ matchFrontmatter(after).index >= 0
    /\ IF NidIsLast(frontmatterText(before))
       THEN NidLineRemoved(frontmatterText(before), frontmatterText(after))
       ELSE NidValueCleared(frontmatterText(before), frontmatterText(after))

\* the scanned file has a front matter with an nid property
HadNid(text) ==
    matchFrontmatter(text).index >= 0 /\ nidLine(frontmatterText(text)) >= 0

\* writeIDs took the identifier out of the front matter
Demoted ==
    /\ pc = "written" /\ ~useFrontmatterID
    /\ Truthy(frontmatterID) /\ HadNid(original_file)

\* the bulk delete took the identifier out of the front matter
BulkDeleted ==
    /\ pc = "bulkDeleted" /\ file # original_file
    /\ Truthy(bulkFrontmatterID(original_file))

\* C18: when the front-matter identifier is removed, by writeIDs or by the
\* bulk delete: if nid is the last property its line goes with the line end
\* before it and every other property stays; otherwise the value is cleared
\* and the key nid: stays on a line of its own, apart from the next property.
C18_FrontmatterIDRemoval ==
    (Demoted \/ BulkDeleted) => IdentifierRemoved(original_file, file)

\* C18 (reached): writeIDs removed the nid line that followed another
\* property, and that property is all the front matter holds afterwards.
C18_LastNidLineRemoved ==
    /\ Demoted
    /\ NidIsLast(frontmatterText(original_file))
    /\ nidLine(frontmatterText(original_file)) > 0
    /\ frontmatterText(file) = "k: v"

\* the new notes whose creation failed: the remote store answered null
FailedNotes ==
    { n \in DOMAIN NewNotes : ~Truthy(note_ids[IndexInAll(NewNotes[n])]) }

\* another new note, one that was created, has its marker at the same offset
SharesInsertion(n) ==
    \E m \in DOMAIN NewNotes :
        /\ m # n /\ m \notin FailedNotes
        /\ InsertionOf(NewNotes[m]) = InsertionOf(NewNotes[n])

\* the insertions writeIDs makes at an offset
InsertionsAt(offset) ==
    { e \in DOMAIN edits : edits[e].start = offset /\ edits[e].end = offset }

\* C19: writeIDs writes an identifier for a new note, as an inline marker or
\* as the nid of the front matter, only when the remote store assigned the
\* note one: a note whose creation failed (null in note_ids) gets no marker
\* at its position and no nid value.
C19_FailedNoteGetsNoIdentifier ==
    pc = "written" =>
        \A n \in FailedNotes :
            IF useFrontmatterID
            THEN FrontmatterEdits = {}
            ELSE SharesInsertion(n) \/ InsertionsAt(InsertionOf(NewNotes[n])) = {}

\* the matches that search considered
Searched == { k \in DOMAIN considered : considered[k].dialect = "regex" }

\* how specific the variant of an entry of search is: 1 with identifier and
\* tag suffix, 2 with identifier only, 3 with tag suffix only, 4 with neither
Specificity(k) ==
    IF considered[k].search_id
    THEN (IF considered[k].search_tags THEN 1 ELSE 2)
    ELSE (IF considered[k].search_tags THEN 3 ELSE 4)

\* the matches of the variant with identifier and tag suffix
WithTagsAndID == { k \in Searched : Specificity(k) = 1 }

\* the matches of a less specific variant of the same note type on text of
\* the k-th match
LessSpecificOn(k) ==
    { j \in Searched :
        /\ considered[j].type = considered[k].type
        /\ Specificity(j) > Specificity(k)
        /\ SharesText(considered[j].span, considered[k].span) }

\* C20: for each custom note type search considers the matches of the four
\* variants most specific first: identifier and tag suffix, identifier only,
\* tag suffix only, neither.  A text with a tag block and an identifier
\* marker is considered under the first variant before any other, and no
\* less specific variant turns it into a new note.
C20_MostSpecificVariantFirst ==
    /\ \A i, j \in Searched :
          (i < j /\ considered[i].type = considered[j].type)
              => Specificity(i) <= Specificity(j)
    /\ \A k \in WithTagsAndID :
          \A j \in LessSpecificOn(k) :
              k < j /\ considered[j].outcome # "add"

\* C20 (reached): a text with tag block and identifier was taken as a note
\* to edit under the first variant, and its match under the variant with the
\* tag suffix only was ignored afterwards.
C20_FirstVariantClaimed ==
    /\ pc = "scanned"
    /\ \E k \in WithTagsAndID :
          /\ considered[k].outcome = "edit"
          /\ \E j \in LessSpecificOn(k) :
                Specificity(j) = 3 /\ considered[j].outcome = "ignored"

----------------------------------------------------------------------------
(* The scan with required tags: scanFile, file.ts 575-608 *)

\* documents with tags: what the text starts with, what the metadata snapshot
\* holds of it, and the tags the document has
TaggedDocs ==
    { [text |-> "", cache |-> NoCache, has |-> {}],
      [text |-> "---\ntags: [t]\n---\n", has |-> {"t"},
       cache |-> [NoCache EXCEPT !.frontmatter = TRUE,
                      !.fmtags = [NoTags EXCEPT !.kind = "array", !.array = <<"t">>]]],
      [text |-> "---\ntags: u, t\n---\n", has |-> {"u", "t"},
       cache |-> [NoCache EXCEPT !.frontmatter = TRUE,
                      !.fmtags = [NoTags EXCEPT !.kind = "string", !.string = "u, t"]]],
      [text |-> "#t\n", has |-> {"t"}, cache |-> [NoCache EXCEPT !.tags = <<"#t">>]],
      [text |-> "#y\n", has |-> {"y"}, cache |-> [NoCache EXCEPT !.tags = <<"#y">>]] }

\* the required tags of the note types, as the settings hold them
TagSettings ==
    { [t \in {"RC", "R1", "R2"} |-> ""],
      [t \in {"RC", "R1", "R2"} |-> IF t = "R2" THEN "t" ELSE ""],
      [t \in {"RC", "R1", "R2"} |->
          IF t = "R1" THEN "u, t" ELSE IF t = "R2" THEN "x" ELSE ""] }

InitGate ==
    /\ pc = "compose"
    /\ \E d \in TaggedDocs :
          /\ file = d.text
          /\ original_file = d.text
          /\ file_cache = d.cache
    /\ \E g \in BOOLEAN, tags \in TagSettings :
          data = [NoData EXCEPT !.EXISTING_IDS = {5},
                                !.custom_regexps = <<"RC", "R1", "R2">>,
                                !.regex_required_tags = g,
                                !.regexp_tags = tags]
    /\ matches = NoMatches
    /\ edits = <<>>
    /\ composed = 0
    /\ FreshFields
    /\ SyncIdle
    /\ NoContext

NextGate ==
    \/ Compose
    \/ SetupScan
    \/ ScanNotes
    \/ ScanInlineNotes
    \/ SearchRegexps

SpecGate == InitGate /\ [][NextGate]_vars

\* the tags a required-tags setting asks for
Asked(tags_str) ==
    IF tags_str = "t" THEN {"t"}
    ELSE IF tags_str = "u, t" THEN {"u", "t"}
    ELSE IF tags_str = "x" THEN {"x"}
    ELSE {}

\* the tags of the document
DocTags == (CHOOSE d \in TaggedDocs : d.cache = file_cache).has

HasTags(t) == Asked(data.regexp_tags[t]) # {}

TagsMet(t) == Asked(data.regexp_tags[t]) \cap DocTags # {}

\* the place of a note type in the declared order
Declared(t) == CHOOSE n \in DOMAIN data.custom_regexps : data.custom_regexps[n] = t

\* the match m was considered by search
WasSearched(m) ==
    \E k \in Searched :
        /\ considered[k].type = m.type
        /\ considered[k].search_id = m.search_id
        /\ considered[k].search_tags = m.search_tags
        /\ considered[k].span = SpanOf(m)

\* the note types search was run for, in the order of the history
InDeclaredOrder(i, j) ==
    Declared(considered[i].type) <= Declared(considered[j].type)

\* C21: with required-tags gating on, every note type that has required
\* tags is run before every type that has none, the types of each group in
\* declared order, and a type whose required tags the document does not have
\* is not run; with gating off the types run in declared order, all of them.
C21_TaggedTypesFirst ==
    pc = "postProcess" =>
        IF data.regex_required_tags
        THEN /\ \A i, j \in Searched :
                  i < j =>
                    /\ HasTags(considered[j].type) => HasTags(considered[i].type)
                    /\ (HasTags(considered[i].type) = HasTags(considered[j].type))
                          => InDeclaredOrder(i, j)
             /\ \A k \in Searched :
                  HasTags(considered[k].type) => TagsMet(considered[k].type)
             /\ \A n \in DOMAIN matches.regex :
                  (~HasTags(matches.regex[n].type) \/ TagsMet(matches.regex[n].type))
                      => WasSearched(matches.regex[n])
        ELSE /\ \A i, j \in Searched : i < j => InDeclaredOrder(i, j)
             /\ \A n \in DOMAIN matches.regex : WasSearched(matches.regex[n])

\* C21 (reached): with gating on, R2, which has a required tag that the
\* document has, was run before R1, which is declared before it and has none.
C21_TaggedTypeRanFirst ==
    /\ pc = "postProcess"
    /\ data.regex_required_tags
    /\ \E i, j \in Searched :
          /\ i < j
          /\ considered[i].type = "R2" /\ considered[j].type = "R1"
          /\ HasTags("R2") /\ ~HasTags("R1")

----------------------------------------------------------------------------
(* The scan of documents with deletion markers: scanDeletions, file.ts 183-187 *)

\* a match of EMPTY_REGEXP: the deletion line and the identifier line after it
EmptyMatch(i, n, id) == [index |-> i, length |-> n, ident |-> id]

\* a deletion marker between other text, and one that is the field of a
\* block note, whose last line is then the identifier of the note
DeletionSegments ==
    { [Plain("DELETE\nID: 5\n") EXCEPT !.empty = <<EmptyMatch(0, 12, 5)>>],
      [BlockSeg("Basic\nDELETE\nID: 7\n", 7) EXCEPT
          !.empty = <<EmptyMatch(Len(BEGIN_NOTE) + 6, 12, 7)>>] }

ComposeDeletions == ComposeFrom(Segments \cup DeletionSegments)

InitDeletions ==
    /\ pc = "compose"
    /\ file = "" /\ original_file = "" /\ file_cache = NoCache
    /\ \E x \in {{}, {5, 7}} :
          data = [NoData EXCEPT !.EXISTING_IDS = x,
                                !.custom_regexps = <<"RC", "R1", "R2">>,
                                !.regexp_tags = [t \in {"RC", "R1", "R2"} |-> ""]]
    /\ matches = NoMatches
    /\ edits = <<>>
    /\ composed = 0
    /\ FreshFields
    /\ SyncIdle
    /\ NoContext

NextDeletions ==
    \/ ComposeDeletions
    \/ SetupScan
    \/ ScanNotes
    \/ ScanInlineNotes
    \/ SearchRegexps
    \/ PostProcess

SpecDeletions == InitDeletions /\ [][NextDeletions]_vars

\* the identifiers of the deletion markers of the document, in document order
MarkerIDs == [k \in DOMAIN matches.empty |-> matches.empty[k].ident]

\* the deletion markers that lie in a span of the ignore set
MarkersInIgnored ==
    { k \in DOMAIN matches.empty :
        \E n \in DOMAIN ignore_spans :
            Within(SpanOf(matches.empty[k]), ignore_spans[n]) }

\* the notes of the note lists, those to edit included
NotesInLists ==
    Len(notes_to_add) + Len(inline_notes_to_add) + Len(regex_notes_to_add)
        + Len(notes_to_edit)

\* C22: scanDeletions appends to notes_to_delete the identifier of every
\* deletion marker of the document, in document order and once each, also of
\* a marker inside an ignore span or inside the span of an accepted note; the
\* step of scanFile it runs in leaves the ignore set, the identifier spans
\* and the history alone and moves no note out of the note lists.
C22_EveryDeletionMarkerOnce ==
    /\ pc \in {"scanNotes", "scanInlineNotes", "search", "postProcess"}
          => notes_to_delete = <<>>
    /\ pc = "scanned" =>
          /\ notes_to_delete = MarkerIDs
          /\ Cardinality(Accepted) = NotesInLists

\* C22 (as a step): the step of scanFile that runs scanDeletions changes
\* neither the ignore set nor the identifier spans nor the history.
C22_ScanStateKept ==
    [][pc = "postProcess" =>
          /\ notes_to_delete' = notes_to_delete \o MarkerIDs
          /\ ignore_spans' = ignore_spans
          /\ existingIDSpans' = existingIDSpans
          /\ considered' = considered]_vars

\* C22 (reached): a deletion marker inside the span of an accepted block
\* note, which is a span of the ignore set, is in notes_to_delete.
C22_MarkerInsideNoteDeleted ==
    /\ pc = "scanned"
    /\ \E k \in MarkersInIgnored :
          /\ notes_to_delete[k] = matches.empty[k].ident
          /\ \E j \in AcceptedOld :
                Within(SpanOf(matches.empty[k]), considered[j].span)

----------------------------------------------------------------------------
(* Claims about the scan after a parse-level error *)

\* the matches whose parse ended in an error: a ClozeError, a NoteTypeError
\* or an identifier the remote store does not know
ParseErrors ==
    { k \in DOMAIN considered :
        considered[k].outcome \in {"cloze", "type_error", "unknown"} }

\* the valid matches that were processed after a parse-level error
ValidAfterError == { k \in Accepted : \E e \in ParseErrors : e < k }

\* the entries of the history that a pass made
SeenBy(dialect) == { k \in DOMAIN considered : considered[k].dialect = dialect }

\* the match of a custom regexp was processed, or lies in an ignore span
Processed(m) ==
    \/ \E k \in SeenBy("regex") : considered[k].span = SpanOf(m)
    \/ contained_in(SpanOf(m), ignore_spans)

\* the identifier of a new note was written: as the nid of the front matter
\* in front-matter mode, as a marker at the note's position otherwise
IdentifierWritten(note) ==
    IF useFrontmatterID
    THEN HoldsNid(file, note_ids[IndexInAll(note)])
    ELSE IndexInAll(note) \in MarkersAt(InsertionOf(note), note.dialect)

\* C23: a parse-level error on a match (ClozeError, NoteTypeError, unknown
\* identifier) does not stop the scan: every match of every pass is still
\* processed, every valid match processed after the error is in the notes to
\* add or the notes to edit, and writeIDs writes the identifier the remote
\* store gave it.
C23_ScanGoesOnAfterError ==
    /\ Scanned =>
          /\ Cardinality(SeenBy("block")) = Len(matches.note)
          /\ Cardinality(SeenBy("inline")) = Len(matches.inline)
          /\ \A n \in DOMAIN matches.regex : Processed(matches.regex[n])
          /\ \A k \in ValidAfterError : InSyncPlan(NoteAt(k))
    /\ pc = "written" =>
          \A n \in DOMAIN NewNotes :
              (/\ Truthy(note_ids[IndexInAll(NewNotes[n])])
               /\ \E k \in ValidAfterError : NoteAt(k) = NewNotes[n])
                  => IdentifierWritten(NewNotes[n])

----------------------------------------------------------------------------
(* Claims about the note lists at the end of scanFile *)

\* entry i of the index list is the insertion position of note i
IndexedInStep(notes, indexes) ==
    /\ Len(indexes) = Len(notes)
    /\ \A i \in DOMAIN notes : indexes[i] = InsertionOf(notes[i])

\* C24: after each scan pass and after each branch of the reconciler, each
\* insertion-index list is as long as its note list and entry i of the index
\* list is the insertion position of note i, for the block notes, the inline
\* notes and the notes of the custom regexps.
C24_IndexListsInStep ==
    pc \in {"scanInlineNotes", "search", "postProcess", "scanned"} =>
        /\ IndexedInStep(notes_to_add, id_indexes)
        /\ IndexedInStep(inline_notes_to_add, inline_id_indexes)
        /\ IndexedInStep(regex_notes_to_add, regex_id_indexes)

\* C24 (reached): the fallback has shifted the first block note to the notes
\* to edit and another new block note, with its position, is left.
C24_ShiftedAndLeft ==
    /\ pc = "scanned"
    /\ notesToWriteInline # <<>>
    /\ notes_to_add # <<>>
    /\ id_indexes = <<InsertionOf(notes_to_add[1])>>

\* the notes that are both to be created and to be edited
CreatedAndEdited ==
    { n \in DOMAIN all_notes_to_add :
        \E e \in DOMAIN notes_to_edit : notes_to_edit[e].note = all_notes_to_add[n] }

\* C25: when scanFile returns, all_notes_to_add is the concatenation of
\* notes_to_add, inline_notes_to_add and regex_notes_to_add, and no note is
\* both in all_notes_to_add and in notes_to_edit.
C25_AllNotesToAddIsTheNewNotes ==
    pc = "scanned" =>
        /\ all_notes_to_add = NewNotes
        /\ CreatedAndEdited = {}

----------------------------------------------------------------------------
(* The sync command: MyPlugin.syncFiles, part_000 312-450.  An invocation is
   at one of its awaits; the code between two awaits runs as one step. *)

Invocations == 1..MaxSyncs

\* the invocation is past the guard and has not returned
Awaiting(i) == syncAt[i] \notin {"idle", "returned"}

\* a plausible slip: no finally clause
keepsGuard(syncing) == syncing

\* part_000 447-449: finally { this.isSyncing = false }
finally(syncing) == FALSE

\* an exit of syncFiles: progressModal.close(), updateStatusBar(state) and
\* the return through the finally clause; syncing is isSyncing before it
Leave(i, state, syncing) ==
    /\ syncAt' = [syncAt EXCEPT ![i] = "returned"]
    /\ modalOpen' = [modalOpen EXCEPT ![i] = FALSE]
    /\ statusBar' = state
    /\ isSyncing' = finally(syncing)

\* part_000 441-446: the catch clause
Caught(i) == Leave(i, "error", isSyncing) /\ UNCHANGED timers

Goes(i, next) ==
    /\ syncAt' = [syncAt EXCEPT ![i] = next]
    /\ UNCHANGED <<isSyncing, statusBar, modalOpen, timers>>

DocumentKept ==
    UNCHANGED <<pc, bufVars, docVars, composed, scanVars, recVars, deleteNotes,
                ctxVars>>

\* part_000 312-330: a sync command; the guard, and up to the first await
SyncFiles(i) ==
    /\ syncAt[i] \in {"idle", "returned"}
    /\ IF isSyncing
       THEN /\ syncAt' = [syncAt EXCEPT ![i] = "returned"]
            /\ UNCHANGED <<isSyncing, statusBar, modalOpen, timers>>
       ELSE /\ isSyncing' = TRUE
            /\ statusBar' = "syncing"
            /\ modalOpen' = [modalOpen EXCEPT ![i] = TRUE]
            /\ syncAt' = [syncAt EXCEPT ![i] = "modelNames"]
            /\ UNCHANGED timers
    /\ DocumentKept

\* part_000 331-342: await AnkiConnect.invoke('modelNames') settles
ModelNames(i) ==
    /\ syncAt[i] = "modelNames"
    /\ \/ Goes(i, "settingToData")
       \/ Leave(i, "error", FALSE) /\ UNCHANGED timers
    /\ DocumentKept

\* part_000 344-405: await settingToData settles; the scan directory
ScanDirectory(i) ==
    /\ syncAt[i] = "settingToData"
    /\ \/ Goes(i, "initialiseFiles")
       \/ Leave(i, "error", FALSE) /\ UNCHANGED timers
       \/ Caught(i)
    /\ DocumentKept

\* part_000 406-418: await manager.initialiseFiles() settles
InitialiseFiles(i) ==
    /\ syncAt[i] = "initialiseFiles"
    /\ \/ Goes(i, "requests_1")
       \/ Leave(i, "idle", FALSE) /\ UNCHANGED timers
       \/ Caught(i)
    /\ DocumentKept

\* part_000 420-429: await manager.requests_1() settles
Requests1(i) ==
    /\ syncAt[i] = "requests_1"
    /\ \/ Goes(i, "saveAllData")
       \/ Caught(i)
    /\ DocumentKept

\* part_000 430-449: await this.saveAllData() settles
SaveAllData(i) ==
    /\ syncAt[i] = "saveAllData"
    /\ \/ /\ timers < MaxTimers
          /\ Leave(i, "success", isSyncing)
          /\ timers' = timers + 1
       \/ Caught(i)
    /\ DocumentKept

\* part_000 437-439: the callback of setTimeout runs
TimerFires ==
    /\ timers > 0
    /\ timers' = timers - 1
    /\ statusBar' = "idle"
    /\ UNCHANGED <<isSyncing, syncAt, modalOpen>>
    /\ DocumentKept

\* part_000 321-324: the callback handed to the progress modal runs, while
\* the modal is open
ModalCallback(i) ==
    /\ modalOpen[i]
    /\ isSyncing' = FALSE
    /\ statusBar' = "idle"
    /\ modalOpen' = [modalOpen EXCEPT ![i] = FALSE]
    /\ UNCHANGED <<syncAt, timers>>
    /\ DocumentKept

InitSync ==
    /\ pc = "sync"
    /\ file = "" /\ original_file = "" /\ file_cache = NoCache
    /\ data = NoData
    /\ matches = NoMatches
    /\ edits = <<>>
    /\ composed = 0
    /\ FreshFields
    /\ SyncIdle
    /\ NoContext

NextSync ==
    \/ \E i \in Invocations : SyncFiles(i)
    \/ \E i \in Invocations : ModelNames(i)
    \/ \E i \in Invocations : ScanDirectory(i)
    \/ \E i \in Invocations : InitialiseFiles(i)
    \/ \E i \in Invocations : Requests1(i)
    \/ \E i \in Invocations : SaveAllData(i)
    \/ \E i \in Invocations : ModalCallback(i)
    \/ TimerFires

SpecSync == InitSync /\ [][NextSync]_vars

\* every await settles and every timer fires; a sync command and the
\* callback of the modal are the user's
SyncFairness ==
    /\ \A i \in Invocations :
          /\ WF_vars(ModelNames(i))
          /\ WF_vars(ScanDirectory(i))
          /\ WF_vars(InitialiseFiles(i))
          /\ WF_vars(Requests1(i))
          /\ WF_vars(SaveAllData(i))
    /\ WF_vars(TimerFires)

SpecSyncFair == InitSync /\ [][NextSync]_vars /\ SyncFairness

\* C26: at most one invocation of syncFiles is past the isSyncing guard and
\* has not returned, under every interleaving of sync commands, awaits and
\* callbacks of the progress modal.
C26_OneSyncAtATime ==
    Cardinality({ i \in Invocations : Awaiting(i) }) <= 1

\* C26 (rejected command): a sync command given while isSyncing is set
\* returns at once: it reaches no await and changes nothing else.
C26_RejectedCommandReturns ==
    [][\A i \in Invocations :
          (isSyncing /\ ~Awaiting(i) /\ syncAt'[i] # syncAt[i])
              => /\ syncAt'[i] = "returned"
                 /\ UNCHANGED <<isSyncing, statusBar, modalOpen, timers>>]_vars

\* C27: every invocation of syncFiles that acquires the guard returns, the
\* step that leaves it (connection failure, invalid scan directory, no
\* changed files, success, an exception) leaves isSyncing false, and
\* isSyncing never stays set forever, so that a later sync command is not
\* rejected forever.
C27_GuardReleased ==
    /\ \A i \in Invocations : Awaiting(i) ~> (syncAt[i] = "returned")
    /\ [][\A i \in Invocations :
             (Awaiting(i) /\ syncAt'[i] = "returned") => ~isSyncing']_vars
    /\ isSyncing ~> ~isSyncing

\* C27 (reached): an invocation has returned after a successful sync, its
\* timer is pending, and isSyncing is false.
C27_ReturnedAfterSuccess ==
    /\ \E i \in Invocations : syncAt[i] = "returned"
    /\ statusBar = "success"
    /\ timers > 0
    /\ ~isSyncing

\* C28: whenever isSyncing is true the status bar state is "syncing":
\* neither the timer of an earlier successful sync nor a callback of the
\* progress modal sets another state while a sync is running.
C28_SyncingShown ==
    isSyncing => statusBar = "syncing"

----------------------------------------------------------------------------
(* Claims about the bulk delete *)

\* checkAndBulkDelete is under way or has returned
InBulkDelete == pc \in {"confirm", "deleteNotes", "modify", "bulkDeleted"}

\* C29: checkAndBulkDelete modifies the file only after the deleteNotes
\* request has succeeded.  With no identifier in the content there is no
\* request and no write; until the user confirms there is no request; when
\* the request throws or answers an error the file is unchanged; the write
\* comes after the request.
C29_WriteOnlyAfterRemoteDelete ==
    InBulkDelete =>
        /\ file # original_file => deleteNotes = "ok" /\ pc = "bulkDeleted"
        /\ noIDs(original_file) => deleteNotes = "none" /\ pc = "bulkDeleted"
        /\ pc = "confirm" => deleteNotes = "none"
        /\ pc = "modify" => deleteNotes = "ok"
        /\ deleteNotes \in {"error", "threw"} => pc = "bulkDeleted"

\* C29 (as a step): the file is written only by the step that follows a
\* deleteNotes request that succeeded.
C29_WriteFollowsRequest ==
    [][(InBulkDelete' /\ file' # file) => (pc = "modify" /\ deleteNotes = "ok")]_vars

\* C29 (reached): the request succeeded and the file was rewritten without
\* its identifiers.
C29_DeletedThenWritten ==
    /\ pc = "bulkDeleted"
    /\ deleteNotes = "ok"
    /\ file # original_file
    /\ file = bulkContent(original_file)

\* C29 (reached): the request failed and the file, which holds identifiers,
\* is as it was.
C29_FailedAndUnchanged ==
    /\ pc = "bulkDeleted"
    /\ deleteNotes \in {"error", "threw"}
    /\ ~noIDs(original_file)
    /\ file = original_file

----------------------------------------------------------------------------
(* The heading context of a position: getContextAtIndex, file.ts 189-218.
   The headings of the metadata snapshot are file_cache.headings, each with
   its text, its level and the offset it starts at. *)

\* this.path
path == "n.md"

\* Array.prototype.join
RECURSIVE join(_, _)
join(strs, sep) ==
    IF strs = <<>> THEN ""
    ELSE IF Len(strs) = 1 THEN strs[1]
    ELSE strs[1] \o sep \o join(Tail(strs), sep)

\* a plausible slip: a heading of the same level is kept as an ancestor
RECURSIVE insertIndexSameLevel(_, _)
insertIndexSameLevel(currentContext, currentHeading) ==
    IF currentContext = <<>> THEN 0
    ELSE IF currentHeading.level >= Head(currentContext).level
    THEN 1 + insertIndexSameLevel(Tail(currentContext), currentHeading)
    ELSE 0

\* file.ts 200-207: the number of leading headings of the context whose
\* level is lower than the level of the current heading
RECURSIVE insert_index(_, _)
insert_index(currentContext, currentHeading) ==
    IF currentContext = <<>> THEN 0
    ELSE IF currentHeading.level > Head(currentContext).level
    THEN 1 + insert_index(Tail(currentContext), currentHeading)
    ELSE 0

\* file.ts 208-209: slice(0, insert_index), push(currentHeading)
pushHeading(currentContext, currentHeading) ==
    Append(SubSeq(currentContext, 1, insert_index(currentContext, currentHeading)),
           currentHeading)

\* file.ts 195-210: the loop over the headings, left at the first heading
\* that starts after the position
RECURSIVE contextAt(_, _, _)
contextAt(headings, at, currentContext) ==
    IF headings = <<>> THEN currentContext
    ELSE IF at < Head(headings).offset THEN currentContext
    ELSE contextAt(Tail(headings), at, pushHeading(currentContext, Head(headings)))

heading_strs(currentContext) ==
    [k \in DOMAIN currentContext |-> currentContext[k].heading]

\* getContextAtIndex, file.ts 189-218
getContextAtIndex(at) ==
    IF "headings" \notin DOMAIN file_cache THEN path
    ELSE join(<<path>> \o heading_strs(contextAt(file_cache.headings, at, <<>>)), " > ")

\* the metadata snapshot gets one more heading, after the ones it has
AddHeading ==
    /\ pc = "headings"
    /\ "headings" \in DOMAIN file_cache
    /\ Len(file_cache.headings) < MaxHeadings
    /\ \E text \in {"A", "B"}, level \in 1..MaxLevel, offset \in 0..MaxOffset :
          /\ \A k \in DOMAIN file_cache.headings : file_cache.headings[k].offset <= offset
          /\ file_cache' = [file_cache EXCEPT !.headings =
                               Append(@, [heading |-> text, level |-> level,
                                          offset |-> offset])]
    /\ UNCHANGED <<pc, bufVars, matches, data, composed, scanVars, recVars, syncVars,
                   deleteNotes, ctxVars>>

\* a call of getContextAtIndex
GetContextAtIndex ==
    /\ pc = "headings"
    /\ pc' = "context"
    /\ \E at \in 0..(MaxOffset + 1) :
          /\ position' = at
          /\ context' = getContextAtIndex(at)
    /\ UNCHANGED <<bufVars, docVars, composed, scanVars, recVars, syncVars, deleteNotes>>

InitContext ==
    /\ pc = "headings"
    /\ file = "" /\ original_file = ""
    /\ file_cache \in {NoCache, NoCache @@ [headings |-> <<>>]}
    /\ data = NoData
    /\ matches = NoMatches
    /\ edits = <<>>
    /\ composed = 0
    /\ FreshFields
    /\ SyncIdle
    /\ NoContext

NextContext == AddHeading \/ GetContextAtIndex

SpecContext == InitContext /\ [][NextContext]_vars

\* the headings of the snapshot
Headings == IF "headings" \in DOMAIN file_cache THEN file_cache.headings ELSE <<>>

\* the headings that start at or before the position
AtOrBefore == { k \in DOMAIN Headings : Headings[k].offset <= position }

\* the headings before the k-th whose level is lower than the k-th's
LowerBefore(k) == { j \in 1..(k - 1) : Headings[j].level < Headings[k].level }

Nearest(S) == CHOOSE k \in S : \A j \in S : j <= k

\* the chain of headings that encloses the k-th, the k-th last
RECURSIVE ChainTo(_)
ChainTo(k) ==
    IF LowerBefore(k) = {} THEN <<k>>
    ELSE Append(ChainTo(Nearest(LowerBefore(k))), k)

Enclosing == IF AtOrBefore = {} THEN <<>> ELSE ChainTo(Nearest(AtOrBefore))

\* C30: getContextAtIndex returns the path followed by the chain of headings
\* that encloses the position: only headings that start at or before the
\* position, levels strictly increasing, the last one the nearest heading at
\* or before the position, each other one the nearest preceding heading of a
\* lower level than its successor; with no headings, the path alone.
C30_EnclosingHeadings ==
    pc = "context" =>
        /\ context = join(<<path>> \o [k \in DOMAIN Enclosing |->
                                          Headings[Enclosing[k]].heading], " > ")
        /\ \A k \in DOMAIN Enclosing : Enclosing[k] \in AtOrBefore
        /\ \A k \in 1..(Len(Enclosing) - 1) :
              Headings[Enclosing[k]].level < Headings[Enclosing[k + 1]].level
        /\ Headings = <<>> => context = path

\* C30 (reached): the context of a position under three headings is the
\* first and the third: the second, of the same level as the third, is left.
C30_SiblingLeftOut ==
    /\ pc = "context"
    /\ Len(Headings) = 3
    /\ Enclosing = <<1, 3>>
    /\ Headings[2].level = Headings[3].level
    /\ context = path \o " > " \o Headings[1].heading \o " > " \o Headings[3].heading

====
